---- MODULE Spec2Model ----
(***************************************************************************)
(* Tab-activity aggregation engine of the tab-trackr extension             *)
(* (apps/ext/src/entrypoints/background.ts, class TabTracker and the       *)
(* listeners registered by defineBackground).                              *)
(*                                                                         *)
(* The background process is a single-threaded event loop.  Every action   *)
(* below is one run-to-completion piece of a handler: from the event (or   *)
(* from the resumption after an await) to the next await or the return.    *)
(* Time is in milliseconds; the clock advances in whole save intervals.    *)
(* Dates are day numbers.  browser.storage.local applies the operations    *)
(* in the order they are issued: a write takes effect when issued, a read  *)
(* returns the value at the time it is issued, and the caller resumes      *)
(* later.                                                                  *)
(***************************************************************************)
EXTENDS Integers, Sequences, FiniteSets, TLC

----------------------------------------------------------------------------
(* Bounds of the model *)

MaxTicks == 3          \* the clock runs from 0 to MaxTicks * SAVE_INTERVAL
MaxEvents == 3         \* events the environment delivers in one behaviour
MaxDate == 13           \* calendar dates given to getWeekStart on its own: 0..MaxDate
MaxDay == 1            \* calendar days are 0 .. MaxDay; the process starts on day 0 or later
MaxFailures == 2       \* periodic saves the storage rejects in one behaviour
MaxForwarded == 2      \* sessions handed to the Sync Forwarder in one behaviour

(* Program constants *)

IDLE_THRESHOLD == 30000
SAVE_INTERVAL == 10000
CLEANUP_INTERVAL_DAYS == 7
KEEP_WEEKS == 12

DATA_VERSION == "1.0.0"
RETRY_DELAY_MS == 30000

----------------------------------------------------------------------------
(* Values *)

None == [none |-> TRUE]        \* null / undefined, where the value is an object
Absent == [absent |-> TRUE]    \* a storage key that is not set
Closed == <<"closed">>         \* the URL slot of a tab that does not exist (any more)
NoTabId == 0                   \* a tab id that is null or undefined

TabIds == {1, 2}

(* A URL is the sequence of its tokens, so that startsWith and includes    *)
(* are computed on it.                                                     *)
UrlA == <<"https", "://", "a.com">>
UrlB == <<"https", "://", "b.com">>
UrlChrome == <<"chrome", "://", "newtab">>
UrlAbout == <<"about", ":", "blank">>
NoUrl == <<>>          \* tab.url undefined or ""

Urls == {UrlA, UrlB, UrlChrome}
Domains == {"a.com", "b.com", "newtab", "unknown"}

invalidPrefixes == {<<"chrome", "://">>, <<"chrome-extension", "://">>,
                    <<"moz-extension", "://">>, <<"about", ":">>}

startsWith(url, prefix) ==
    /\ Len(url) >= Len(prefix)
    /\ \A i \in 1..Len(prefix) : url[i] = prefix[i]

includes(url, token) == \E i \in 1..Len(url) : url[i] = token

isValidUrl(url) ==
    /\ url # NoUrl
    /\ ~\E prefix \in invalidPrefixes : startsWith(url, prefix)
    /\ includes(url, "://")

extractDomain(url) ==
    IF Len(url) >= 3 /\ url[2] = "://" THEN url[3] ELSE "unknown"

(* Record<string, number> helpers: (m[k] || 0) and m[k] = v *)
Get(m, k) == IF k \in DOMAIN m THEN m[k] ELSE 0
Put(m, k, v) == [x \in (DOMAIN m) \cup {k} |-> IF x = k THEN v ELSE m[x]]
EmptyMap == [x \in {} |-> 0]

EmptyDailyStats(date) ==
    [date |-> date, domains |-> EmptyMap, totalTime |-> 0, sessions |-> <<>>]

(* an instant, as toISOString writes it and new Date reads it: the day and *)
(* the milliseconds since its midnight                                     *)
Timestamp(date, time) == [date |-> date, time |-> time]

EmptyHistoricalData(day, time) ==
    [version |-> DATA_VERSION, lastCleanup |-> Timestamp(day, time), weeklyStats |-> EmptyMap,
     allTimeTotals |-> [totalTime |-> 0, sessionCount |-> 0,
                        firstTrackingDate |-> day, topDomains |-> EmptyMap]]

----------------------------------------------------------------------------
VARIABLES
    now,                    \* Date.now()
    today,                  \* new Date().toISOString().split('T')[0], a day number
    tabUrl,                 \* the browser's tabs: tab id -> URL, or Closed
    activeTab,              \* the active tab of the current window, or NoTabId
    windowFocused,          \* a browser window has the focus
    isTrackingEnabled,      \* TabTracker fields
    currentSession,
    currentTabId,
    dailyStats,
    historicalData,
    contentActivityStatus,
    saveTimer,
    saveDue,                \* the interval timer has a callback queued
    storage,                \* browser.storage.local
    initPc, initLocal,      \* tracker.initialize(), fired at boot and not awaited
    togglePc,               \* a TOGGLE_TRACKING request in flight
    clearPc,                \* a CLEAR_DATA request in flight
    loadPc, loadLocal,      \* a GET_DAILY_STATS request in flight
    load2Pc, load2Local,    \* a second GET_DAILY_STATS request in flight at the same time
    lookups,                \* onTabActivated calls waiting for browser.tabs.get
    focusQuery,             \* a focus-gained listener waiting for browser.tabs.query
    nextId,                 \* history: sessions created so far
    appendCount,            \* history: session id -> times pushed on a session log
    events,                 \* history: events delivered by the environment
    call,                   \* history: the tab of the last direct startTracking call
    syncCalls,              \* syncService.addPendingSession calls: session id -> progress
    probe,                  \* a call of a pure method on its own: its argument and result
    response,               \* what this step called sendResponse with, or None
    failedSaves,            \* history: the times of the periodic saves the storage rejected
    syncService,            \* the DataSyncService, its two storage keys and the remote table
    clearedBefore,          \* history: the session ids below it were given out before the last CLEAR_DATA
    tz                      \* the device's time zone: -1 west of UTC, 0 UTC, 1 east of UTC

browserVars == <<tabUrl, activeTab, windowFocused>>
trackerVars == <<isTrackingEnabled, currentSession, currentTabId, dailyStats,
                 historicalData, contentActivityStatus, saveTimer, saveDue>>
asyncVars == <<initPc, initLocal, togglePc, clearPc, loadPc, loadLocal, lookups, focusQuery>>
historyVars == <<nextId, appendCount, call, events>>
vars == <<now, today, tz, browserVars, trackerVars, storage, asyncVars, historyVars, syncCalls,
          probe, response, load2Pc, load2Local, failedSaves, syncService, clearedBefore>>


----------------------------------------------------------------------------
(* The synchronous methods of TabTracker, as functions of the fields they   *)
(* read and write: t = [currentSession, currentTabId, dailyStats,           *)
(* contentActivityStatus, nextId, appendCount, syncCalls].                 *)

Tracker ==
    [currentSession |-> currentSession, currentTabId |-> currentTabId,
     dailyStats |-> dailyStats, contentActivityStatus |-> contentActivityStatus,
     nextId |-> nextId, appendCount |-> appendCount, syncCalls |-> syncCalls]

SetTracker(t) ==
    /\ currentSession' = t.currentSession
    /\ currentTabId' = t.currentTabId
    /\ dailyStats' = t.dailyStats
    /\ contentActivityStatus' = t.contentActivityStatus
    /\ nextId' = t.nextId
    /\ appendCount' = t.appendCount
    /\ syncCalls' = t.syncCalls

getCurrentTabId(t) == t.currentTabId

(* variant: an Activity Status entry counts only below the idle threshold *)
wasActive_ThresholdToo(t) ==
    LET timeDiff == now - t.currentSession.lastActive
        tabId == getCurrentTabId(t)
        contentActivity == IF tabId # NoTabId
                           THEN t.contentActivityStatus[tabId] ELSE None
    IN IF contentActivity # None
       THEN contentActivity.isActive /\ contentActivity.isVisible /\ timeDiff < IDLE_THRESHOLD
       ELSE timeDiff < IDLE_THRESHOLD

wasActive(t) ==
    LET timeDiff == now - t.currentSession.lastActive
        tabId == getCurrentTabId(t)
        contentActivity == IF tabId # NoTabId
                           THEN t.contentActivityStatus[tabId] ELSE None
    IN IF contentActivity # None
       THEN contentActivity.isActive /\ contentActivity.isVisible
       ELSE timeDiff < IDLE_THRESHOLD

(* variant: the time since lastActive is counted whatever was-active says *)
updateCurrentSession_CountsAlways(t) ==
    IF t.currentSession = None THEN t
    ELSE LET timeDiff == now - t.currentSession.lastActive
         IN [t EXCEPT !.currentSession =
                [t.currentSession EXCEPT !.totalTime = @ + timeDiff, !.lastActive = now]]

(* variant: lastActive is advanced only when the time is counted *)
updateCurrentSession_KeepsLastActive(t) ==
    IF t.currentSession = None THEN t
    ELSE LET timeDiff == now - t.currentSession.lastActive
         IN IF wasActive(t)
            THEN [t EXCEPT !.currentSession =
                     [t.currentSession EXCEPT !.totalTime = @ + timeDiff, !.lastActive = now]]
            ELSE t

updateCurrentSession(t) ==
    IF t.currentSession = None THEN t
    ELSE LET timeDiff == now - t.currentSession.lastActive
             counted == IF wasActive(t) THEN t.currentSession.totalTime + timeDiff
                        ELSE t.currentSession.totalTime
         IN [t EXCEPT !.currentSession =
                [t.currentSession EXCEPT !.totalTime = counted, !.lastActive = now]]

(* syncService.addPendingSession(session), not awaited: the call runs up to *)
(* its first await, the read of the pending-sessions store, and returns    *)
addPendingSession(calls, session) == Put(calls, session.id, "get")

(* variant: endCurrentSession waits for the Sync Forwarder, the session    *)
(* stays current until the call has settled                                *)
endCurrentSession_AwaitsSync(t) ==
    IF t.currentSession = None THEN t
    ELSE IF t.dailyStats = None THEN t
    ELSE LET u == updateCurrentSession(t)
             domain == u.currentSession.domain
             sessionTime == u.currentSession.totalTime
             ds == u.dailyStats
         IN [u EXCEPT
               !.dailyStats =
                   [ds EXCEPT !.domains = Put(ds.domains, domain,
                                              Get(ds.domains, domain) + sessionTime),
                              !.totalTime = ds.totalTime + sessionTime,
                              !.sessions = Append(ds.sessions, u.currentSession)],
               !.appendCount = Put(@, u.currentSession.id, Get(@, u.currentSession.id) + 1),
               !.syncCalls = addPendingSession(@, u.currentSession)]

(* variant: the session is ended as it is, without a last update *)
endCurrentSession_NoLastUpdate(t) ==
    IF t.currentSession = None THEN t
    ELSE IF t.dailyStats = None THEN t
    ELSE LET u == t
             domain == u.currentSession.domain
             sessionTime == u.currentSession.totalTime
             ds == u.dailyStats
         IN [u EXCEPT
               !.dailyStats =
                   [ds EXCEPT !.domains = Put(ds.domains, domain, Get(ds.domains, domain) + sessionTime),
                              !.totalTime = ds.totalTime + sessionTime,
                              !.sessions = Append(ds.sessions, u.currentSession)],
               !.appendCount = Put(@, u.currentSession.id, Get(@, u.currentSession.id) + 1),
               !.syncCalls = addPendingSession(@, u.currentSession),
               !.currentSession = None]

(* variant: the session's time is added to the domain but not to totalTime *)
endCurrentSession_NoTotal(t) ==
    IF t.currentSession = None THEN t
    ELSE IF t.dailyStats = None THEN t
    ELSE LET u == updateCurrentSession(t)
             domain == u.currentSession.domain
             sessionTime == u.currentSession.totalTime
             ds == u.dailyStats
         IN [u EXCEPT
               !.dailyStats =
                   [ds EXCEPT !.domains = Put(ds.domains, domain, Get(ds.domains, domain) + sessionTime),
                              !.sessions = Append(ds.sessions, u.currentSession)],
               !.appendCount = Put(@, u.currentSession.id, Get(@, u.currentSession.id) + 1),
               !.syncCalls = addPendingSession(@, u.currentSession),
               !.currentSession = None]

endCurrentSession(t) ==
    IF t.currentSession = None THEN t
    ELSE IF t.dailyStats = None THEN t
    ELSE LET u == updateCurrentSession(t)
             domain == u.currentSession.domain
             sessionTime == u.currentSession.totalTime
             ds == u.dailyStats
         IN [u EXCEPT
               !.dailyStats =
                   [ds EXCEPT !.domains = Put(ds.domains, domain, Get(ds.domains, domain) + sessionTime),
                              !.totalTime = ds.totalTime + sessionTime,
                              !.sessions = Append(ds.sessions, u.currentSession)],
               !.appendCount = Put(@, u.currentSession.id, Get(@, u.currentSession.id) + 1),
               !.syncCalls = addPendingSession(@, u.currentSession),
               !.currentSession = None]

(* tab = [id |-> tab.id or NoTabId, url |-> tab.url or NoUrl] *)
startTrackingAllowed(t, tab) ==
    /\ isTrackingEnabled
    /\ tab.url # NoUrl
    /\ tab.id # NoTabId
    /\ isValidUrl(tab.url)
    /\ t.dailyStats # None

(* variant: the new session replaces the current one without ending it *)
startTracking_NoEnd(t, tab) ==
    IF ~startTrackingAllowed(t, tab) THEN t
    ELSE [t EXCEPT
            !.currentTabId = tab.id,
            !.currentSession =
                [id |-> t.nextId, url |-> tab.url, domain |-> extractDomain(tab.url),
                 startTime |-> now, lastActive |-> now, totalTime |-> 0],
            !.nextId = t.nextId + 1]

(* variant: the current session is ended before the preconditions are checked *)
startTracking_EndsFirst(t, tab) ==
    LET u == IF t.currentSession # None THEN endCurrentSession(t) ELSE t
    IN IF ~startTrackingAllowed(u, tab) THEN u
       ELSE [u EXCEPT
               !.currentTabId = tab.id,
               !.currentSession =
                   [id |-> u.nextId, url |-> tab.url, domain |-> extractDomain(tab.url),
                    startTime |-> now, lastActive |-> now, totalTime |-> 0],
               !.nextId = u.nextId + 1]

startTracking(t, tab) ==
    IF ~startTrackingAllowed(t, tab) THEN t
    ELSE LET u == IF t.currentSession # None THEN endCurrentSession(t) ELSE t
         IN [u EXCEPT
               !.currentTabId = tab.id,
               !.currentSession =
                   [id |-> u.nextId, url |-> tab.url, domain |-> extractDomain(tab.url),
                    startTime |-> now, lastActive |-> now, totalTime |-> 0],
               !.nextId = u.nextId + 1]

onTabRemoved(t, tabId) ==
    LET u == IF t.currentSession # None THEN endCurrentSession(t) ELSE t
        v == IF tabId # NoTabId
             THEN [u EXCEPT !.contentActivityStatus[tabId] = None] ELSE u
    IN IF tabId # NoTabId /\ tabId = v.currentTabId THEN [v EXCEPT !.currentTabId = NoTabId] ELSE v

----------------------------------------------------------------------------
(* Historical Archiver *)

(* Date.getDay() of a day number: day 0 is 1970-01-01, a Thursday *)
getDay(d) == (d + 4) % 7

(* new Date(dateString) is UTC midnight of that date; getDay, getDate,      *)
(* setDate and setHours work on the local date, which west of UTC is the   *)
(* previous day; toISOString gives the UTC date of the local midnight,     *)
(* which east of UTC is the previous day.                                  *)
getWeekStart(date) ==
    LET d == IF tz < 0 THEN date - 1 ELSE date
        day == getDay(d)
        diff == d - day + (IF day = 0 THEN -6 ELSE 1)
    IN IF tz > 0 THEN diff - 1 ELSE diff

(* variant: a day is skipped when its session log is empty *)
archiveSkipped_EmptyLog(h, ds) == IF ds = None \/ h = None THEN TRUE ELSE Len(ds.sessions) = 0

archiveSkipped(h, ds) == IF ds = None \/ h = None THEN TRUE ELSE ds.totalTime = 0

MergeDomains(top, domains) ==
    [x \in (DOMAIN top) \cup (DOMAIN domains) |-> Get(top, x) + Get(domains, x)]

(* variant: the day is added to its week but not to the all-time totals *)
archiveDailyData_WeekOnly(h, ds) ==
    IF archiveSkipped(h, ds) THEN h
    ELSE LET weekStart == getWeekStart(ds.date)
             dateKey == ds.date
             w0 == IF weekStart \in DOMAIN h.weeklyStats THEN h.weeklyStats[weekStart]
                   ELSE [weekStart |-> weekStart, totalTime |-> 0, dailyBreakdown |-> EmptyMap,
                         topDomains |-> EmptyMap, sessionCount |-> 0]
             w1 == [w0 EXCEPT !.totalTime = @ + ds.totalTime,
                              !.dailyBreakdown = Put(@, dateKey, ds.totalTime),
                              !.sessionCount = @ + Len(ds.sessions),
                              !.topDomains = MergeDomains(@, ds.domains)]
         IN [h EXCEPT !.weeklyStats = Put(@, weekStart, w1)]

(* variant: the entry of the week is started afresh by every archived day *)
archiveDailyData_FreshWeek(h, ds) ==
    IF archiveSkipped(h, ds) THEN h
    ELSE LET weekStart == getWeekStart(ds.date)
             dateKey == ds.date
             w0 == IF FALSE THEN h.weeklyStats[weekStart]
                   ELSE [weekStart |-> weekStart, totalTime |-> 0, dailyBreakdown |-> EmptyMap,
                         topDomains |-> EmptyMap, sessionCount |-> 0]
             w1 == [w0 EXCEPT !.totalTime = @ + ds.totalTime,
                              !.dailyBreakdown = Put(@, dateKey, ds.totalTime),
                              !.sessionCount = @ + Len(ds.sessions),
                              !.topDomains = MergeDomains(@, ds.domains)]
         IN [h EXCEPT !.weeklyStats = Put(@, weekStart, w1),
                      !.allTimeTotals.totalTime = @ + ds.totalTime,
                      !.allTimeTotals.sessionCount = @ + Len(ds.sessions),
                      !.allTimeTotals.topDomains = MergeDomains(@, ds.domains)]

(* archiveDailyData up to its await of saveHistoricalData: the new historicalData *)
archiveDailyData(h, ds) ==
    IF archiveSkipped(h, ds) THEN h
    ELSE LET weekStart == getWeekStart(ds.date)
             dateKey == ds.date
             w0 == IF weekStart \in DOMAIN h.weeklyStats THEN h.weeklyStats[weekStart]
                   ELSE [weekStart |-> weekStart, totalTime |-> 0, dailyBreakdown |-> EmptyMap,
                         topDomains |-> EmptyMap, sessionCount |-> 0]
             w1 == [w0 EXCEPT !.totalTime = @ + ds.totalTime,
                              !.dailyBreakdown = Put(@, dateKey, ds.totalTime),
                              !.sessionCount = @ + Len(ds.sessions),
                              !.topDomains = MergeDomains(@, ds.domains)]
         IN [h EXCEPT !.weeklyStats = Put(@, weekStart, w1),
                      !.allTimeTotals.totalTime = @ + ds.totalTime,
                      !.allTimeTotals.sessionCount = @ + Len(ds.sessions),
                      !.allTimeTotals.topDomains = MergeDomains(@, ds.domains)]

(* cleanupOldData gives getWeekStart the instant 84 days before now; in    *)
(* UTC its week key is that of the date today - 84                         *)
(* variant: the week of the cutoff is removed too *)
cleanupOldData_CutoffWeekToo(h) ==
    LET cutoffWeekStart == getWeekStart(today - KEEP_WEEKS * 7)
        keep == {w \in DOMAIN h.weeklyStats : ~(w <= cutoffWeekStart)}
    IN [h EXCEPT !.weeklyStats = [w \in keep |-> h.weeklyStats[w]]]

cleanupOldData(h) ==
    LET cutoffWeekStart == getWeekStart(today - KEEP_WEEKS * 7)
        keep == {w \in DOMAIN h.weeklyStats : ~(w < cutoffWeekStart)}
    IN [h EXCEPT !.weeklyStats = [w \in keep |-> h.weeklyStats[w]]]

(* Math.floor((now.getTime() - lastCleanup.getTime()) / day): a day less   *)
(* than the difference of the dates when now is earlier in its day         *)
daysSinceCleanup(h) ==
    (today - h.lastCleanup.date) - (IF now < h.lastCleanup.time THEN 1 ELSE 0)

(* variant: the days are counted between the dates *)
cleanupNeeded_CalendarDays(h) ==
    h # None /\ today - h.lastCleanup.date >= CLEANUP_INTERVAL_DAYS

cleanupNeeded(h) == h # None /\ daysSinceCleanup(h) >= CLEANUP_INTERVAL_DAYS

performDataCleanupIfNeeded(h) ==
    IF cleanupNeeded(h)
    THEN [cleanupOldData(h) EXCEPT !.lastCleanup = Timestamp(today, now)]
    ELSE h

----------------------------------------------------------------------------
(* runtime.onMessage: what sendResponse is called with. null is None, a    *)
(* boolean b is Bool(b), an object is itself                               *)
Bool(b) == [boolean |-> b]

Response(message, value) == [message |-> message, value |-> value]

----------------------------------------------------------------------------
(* Content-script activity signals *)

(* data.isActive and data.isVisible are {} when absent, else {value};      *)
(* timestamp is the Date.now() of the content script when it sends         *)
Signal(type, isActive, isVisible) ==
    [type |-> type, timestamp |-> now,
     data |-> [isActive |-> isActive, isVisible |-> isVisible]]

Signals ==
    {Signal("activity", {TRUE}, {}), Signal("activity", {FALSE}, {}),
     Signal("idle", {FALSE}, {}),
     Signal("visibility", {}, {TRUE}), Signal("visibility", {}, {FALSE})}

OrElse(opt, default) == IF opt = {} THEN default ELSE CHOOSE b \in opt : TRUE

(* variant: an activity signal stamps lastActivity with the time of delivery *)
onContentActivityUpdate_StampsNow(t, tabId, activityData) ==
    LET currentStatus == IF t.contentActivityStatus[tabId] # None
                         THEN t.contentActivityStatus[tabId]
                         ELSE [isActive |-> TRUE, lastActivity |-> now, isVisible |-> TRUE]
        newStatus ==
            CASE activityData.type = "activity" ->
                    [currentStatus EXCEPT !.isActive = OrElse(activityData.data.isActive, TRUE),
                                          !.lastActivity = now]
              [] activityData.type = "idle" ->
                    [currentStatus EXCEPT !.isActive = FALSE]
              [] activityData.type = "visibility" ->
                    LET vis == OrElse(activityData.data.isVisible, FALSE)
                    IN [currentStatus EXCEPT !.isVisible = vis,
                                             !.isActive = IF ~vis THEN FALSE ELSE @]
              [] OTHER -> None
    IN IF newStatus = None THEN t
       ELSE LET u == [t EXCEPT !.contentActivityStatus[tabId] = newStatus]
            IN IF u.currentSession # None /\ u.currentTabId = tabId
               THEN updateCurrentSession(u) ELSE u

(* variant: a signal of any tab updates the current session *)
onContentActivityUpdate_UpdatesAlways(t, tabId, activityData) ==
    LET currentStatus == IF t.contentActivityStatus[tabId] # None
                         THEN t.contentActivityStatus[tabId]
                         ELSE [isActive |-> TRUE, lastActivity |-> now, isVisible |-> TRUE]
        newStatus ==
            CASE activityData.type = "activity" ->
                    [currentStatus EXCEPT !.isActive = OrElse(activityData.data.isActive, TRUE),
                                          !.lastActivity = activityData.timestamp]
              [] activityData.type = "idle" ->
                    [currentStatus EXCEPT !.isActive = FALSE]
              [] activityData.type = "visibility" ->
                    LET vis == OrElse(activityData.data.isVisible, FALSE)
                    IN [currentStatus EXCEPT !.isVisible = vis,
                                             !.isActive = IF ~vis THEN FALSE ELSE @]
              [] OTHER -> None
    IN IF newStatus = None THEN t
       ELSE LET u == [t EXCEPT !.contentActivityStatus[tabId] = newStatus]
            IN IF u.currentSession # None
               THEN updateCurrentSession(u) ELSE u

onContentActivityUpdate(t, tabId, activityData) ==
    LET currentStatus == IF t.contentActivityStatus[tabId] # None
                         THEN t.contentActivityStatus[tabId]
                         ELSE [isActive |-> TRUE, lastActivity |-> now, isVisible |-> TRUE]
        newStatus ==
            CASE activityData.type = "activity" ->
                    [currentStatus EXCEPT !.isActive = OrElse(activityData.data.isActive, TRUE),
                                          !.lastActivity = activityData.timestamp]
              [] activityData.type = "idle" ->
                    [currentStatus EXCEPT !.isActive = FALSE]
              [] activityData.type = "visibility" ->
                    LET vis == OrElse(activityData.data.isVisible, FALSE)
                    IN [currentStatus EXCEPT !.isVisible = vis,
                                             !.isActive = IF ~vis THEN FALSE ELSE @]
              [] OTHER -> None
    IN IF newStatus = None THEN t
       ELSE LET u == [t EXCEPT !.contentActivityStatus[tabId] = newStatus]
            IN IF u.currentSession # None /\ u.currentTabId = tabId
               THEN updateCurrentSession(u) ELSE u

----------------------------------------------------------------------------
(* Initial state: the background service worker has just booted and has     *)
(* called tracker.initialize(), whose first storage read is in flight.      *)

PrevSession ==
    [id |-> 0, url |-> UrlA, domain |-> "a.com",
     startTime |-> 0 - SAVE_INTERVAL, lastActive |-> 0, totalTime |-> SAVE_INTERVAL]

(* what an earlier run of the process left as daily_stats on day 0 *)
PrevDailyStats ==
    [date |-> 0, domains |-> Put(EmptyMap, "a.com", SAVE_INTERVAL),
     totalTime |-> SAVE_INTERVAL, sessions |-> <<PrevSession>>]

(* a fresh profile, or the profile an earlier run left on day 0, with tracking on or off *)
InitialStorage ==
    {[settings |-> Absent, daily |-> Absent, historical |-> Absent],
     [settings |-> Absent, daily |-> PrevDailyStats, historical |-> EmptyHistoricalData(0, 0)],
     [settings |-> [trackingEnabled |-> FALSE], daily |-> PrevDailyStats,
      historical |-> EmptyHistoricalData(0, 0)]}

TimeZones == {0}

(* The Sync Forwarder.  Sessions are forwarded by id.  A call of          *)
(* addPendingSession or syncData is [pc, pendingSessions]: the await it is *)
(* at and its local pendingSessions.  Run 0 is the syncData of the         *)
(* interval timer or of FORCE_SYNC; run s is the one addPendingSession     *)
(* starts for session s, with the retries that follow it.                  *)
ForwardedSessions == 1..MaxForwarded
Runs == 0..MaxForwarded

IdleCall == [pc |-> "idle", pendingSessions |-> <<>>]

SyncStatus(lastSync, isOnline, pendingSessions) ==
    [lastSync |-> lastSync, isOnline |-> isOnline, pendingSessions |-> pendingSessions]

(* getSyncStatus's default for a missing sync_status *)
DefaultSyncStatus == SyncStatus(None, FALSE, 0)

NewSyncService(user, onLine) ==
    [pending_sessions |-> <<>>,          \* storage key pending_sessions
     sync_status |-> Absent,             \* storage key sync_status
     browsing_sessions |-> <<>>,         \* rows inserted into the remote table
     user |-> user,                      \* supabase.auth has a user
     reachable |-> TRUE,                 \* requests to the backend succeed
     onLine |-> onLine,                  \* navigator.onLine
     syncInterval |-> user,              \* the periodic sync is set
     adds |-> [s \in ForwardedSessions |-> IdleCall],
     runs |-> [r \in Runs |-> IdleCall],
     signOut |-> "idle"]

(* the fields of a new TabTracker, the browser as the worker finds it, and *)
(* initialize() at its first await                                         *)
InitFields ==
    /\ now = 0
    /\ tabUrl = [t \in TabIds |-> IF t = 1 THEN UrlA ELSE UrlChrome]
    /\ activeTab = 1
    /\ windowFocused = TRUE
    /\ isTrackingEnabled = TRUE
    /\ currentSession = None
    /\ currentTabId = NoTabId
    /\ dailyStats = None
    /\ historicalData = None
    /\ contentActivityStatus = [t \in TabIds |-> None]
    /\ saveTimer = FALSE
    /\ saveDue = FALSE
    /\ initPc = "loadSettings"
    /\ initLocal = storage.settings
    /\ togglePc = "idle"
    /\ clearPc = "idle"
    /\ loadPc = "idle"
    /\ loadLocal = None
    /\ lookups = {}
    /\ focusQuery = FALSE
    /\ nextId = 1
    /\ appendCount = EmptyMap
    /\ syncCalls = EmptyMap
    /\ events = 0
    /\ call = None
    /\ response = None
    /\ load2Pc = "idle"
    /\ load2Local = None
    /\ failedSaves = <<>>
    /\ clearedBefore = 0

(* with the Sync Forwarder of a signed-in user on a device that is on line *)
InitTracker ==
    /\ InitFields
    /\ syncService = NewSyncService(TRUE, TRUE)

Init ==
    /\ today = 0
    /\ tz \in TimeZones
    /\ storage \in InitialStorage
    /\ probe = None
    /\ InitTracker

----------------------------------------------------------------------------
(* Clock and calendar *)

(* the guard that bounds the events of one behaviour *)
Delivered == events < MaxEvents /\ events' = events + 1

(* a save interval passes, or the host sleeps for the idle threshold and wakes up *)
(* Date.now() never steps backwards between two events                    *)
Steps == {SAVE_INTERVAL, IDLE_THRESHOLD}

Advance(d) ==
    /\ Delivered
    /\ ~saveDue
    /\ now + d <= MaxTicks * SAVE_INTERVAL
    /\ now' = now + d
    /\ saveDue' = saveTimer
    /\ UNCHANGED <<today, tz, browserVars, isTrackingEnabled, currentSession, currentTabId,
                   dailyStats, historicalData, contentActivityStatus, saveTimer, storage,
                   asyncVars, nextId, appendCount, call, syncCalls, probe, load2Pc, load2Local, failedSaves, syncService, clearedBefore>>
    /\ response' = None

Midnight ==
    /\ Delivered
    /\ today < MaxDay
    /\ today' = today + 1
    /\ UNCHANGED <<now, tz, browserVars, trackerVars, storage, asyncVars, nextId, appendCount,
                   call, syncCalls, probe, load2Pc, load2Local, failedSaves, syncService, clearedBefore>>
    /\ response' = None

(* the setInterval callback of startSaveTimer *)
SaveTick ==
    /\ saveTimer /\ saveDue
    /\ saveDue' = FALSE
    /\ SetTracker(updateCurrentSession(Tracker))
    /\ storage' = IF dailyStats # None THEN [storage EXCEPT !.daily = dailyStats] ELSE storage
    /\ UNCHANGED <<now, today, tz, browserVars, isTrackingEnabled, historicalData, saveTimer,
                   asyncVars, call, events, probe, load2Pc, load2Local, failedSaves, syncService, clearedBefore>>
    /\ response' = None

(* variant: the rejected save clears the interval timer *)
SaveTickFail_StopsTimer ==
    /\ saveTimer /\ saveDue
    /\ dailyStats # None
    /\ Len(failedSaves) < MaxFailures
    /\ saveDue' = FALSE
    /\ saveTimer' = FALSE
    /\ SetTracker(updateCurrentSession(Tracker))
    /\ failedSaves' = Append(failedSaves, now)
    /\ UNCHANGED <<now, today, tz, browserVars, isTrackingEnabled, historicalData,
                   storage, asyncVars, call, events, probe, load2Pc, load2Local,
                   syncService, clearedBefore>>
    /\ response' = None

(* the callback again, the promise of storage.local.set being rejected:   *)
(* saveDailyStats is not awaited and nothing handles the rejection         *)
SaveTickFail ==
    /\ saveTimer /\ saveDue
    /\ dailyStats # None
    /\ Len(failedSaves) < MaxFailures
    /\ saveDue' = FALSE
    /\ SetTracker(updateCurrentSession(Tracker))
    /\ failedSaves' = Append(failedSaves, now)
    /\ UNCHANGED <<now, today, tz, browserVars, isTrackingEnabled, historicalData, saveTimer,
                   storage, asyncVars, call, events, probe, load2Pc, load2Local,
                   syncService, clearedBefore>>
    /\ response' = None

----------------------------------------------------------------------------
(* Browser events *)

(* tabs.onActivated: onTabActivated starts and awaits browser.tabs.get *)
TabActivated(tabId) ==
    /\ Delivered
    /\ tabUrl[tabId] # Closed
    /\ activeTab # tabId
    /\ activeTab' = tabId
    /\ lookups' = lookups \cup {tabId}
    /\ UNCHANGED <<now, today, tz, tabUrl, windowFocused, trackerVars, storage, initPc,
                   initLocal, togglePc, clearPc, loadPc, loadLocal, focusQuery, nextId,
                   appendCount, call, syncCalls, probe, load2Pc, load2Local, failedSaves, syncService, clearedBefore>>
    /\ response' = None

(* browser.tabs.get resolves (or rejects for a closed tab) and onTabActivated goes on *)
TabLookupDone(tabId) ==
    /\ tabId \in lookups
    /\ lookups' = lookups \ {tabId}
    /\ IF tabUrl[tabId] = Closed THEN SetTracker(Tracker)
       ELSE SetTracker(startTracking(Tracker, [id |-> tabId, url |-> tabUrl[tabId]]))
    /\ UNCHANGED <<now, today, tz, browserVars, isTrackingEnabled, historicalData, saveTimer,
                   saveDue, storage, initPc, initLocal, togglePc, clearPc, loadPc, loadLocal,
                   focusQuery, call, events, probe, load2Pc, load2Local, failedSaves, syncService, clearedBefore>>
    /\ response' = None

(* tabs.onUpdated with changeInfo.url: the tab navigates *)
TabUpdated(tabId, url) ==
    /\ Delivered
    /\ tabUrl[tabId] # Closed
    /\ tabUrl[tabId] # url
    /\ tabUrl' = [tabUrl EXCEPT ![tabId] = url]
    /\ IF url # NoUrl /\ tabId = activeTab
       THEN SetTracker(startTracking(Tracker, [id |-> tabId, url |-> url]))
       ELSE SetTracker(Tracker)
    /\ UNCHANGED <<now, today, tz, activeTab, windowFocused, isTrackingEnabled, historicalData,
                   saveTimer, saveDue, storage, asyncVars, call, probe, load2Pc, load2Local, failedSaves, syncService, clearedBefore>>
    /\ response' = None

(* tabs.onRemoved *)
TabRemoved(tabId) ==
    /\ Delivered
    /\ tabUrl[tabId] # Closed
    /\ tabUrl' = [tabUrl EXCEPT ![tabId] = Closed]
    /\ activeTab' = IF activeTab = tabId THEN NoTabId ELSE activeTab
    /\ SetTracker(onTabRemoved(Tracker, tabId))
    /\ UNCHANGED <<now, today, tz, windowFocused, isTrackingEnabled, historicalData, saveTimer, saveDue,
                   storage, asyncVars, call, probe, load2Pc, load2Local, failedSaves, syncService, clearedBefore>>
    /\ response' = None

(* windows.onFocusChanged with WINDOW_ID_NONE *)
FocusLost ==
    /\ Delivered
    /\ windowFocused
    /\ windowFocused' = FALSE
    /\ SetTracker(onTabRemoved(Tracker, NoTabId))
    /\ UNCHANGED <<now, today, tz, tabUrl, activeTab, isTrackingEnabled, historicalData,
                   saveTimer, saveDue, storage, asyncVars, call, probe, load2Pc, load2Local, failedSaves, syncService, clearedBefore>>
    /\ response' = None

(* windows.onFocusChanged with a window id: awaits browser.tabs.query *)
FocusGained ==
    /\ Delivered
    /\ ~windowFocused
    /\ windowFocused' = TRUE
    /\ focusQuery' = TRUE
    /\ UNCHANGED <<now, today, tz, tabUrl, activeTab, trackerVars, storage, initPc, initLocal,
                   togglePc, clearPc, loadPc, loadLocal, lookups, nextId, appendCount, call, syncCalls, probe, load2Pc, load2Local, failedSaves, syncService, clearedBefore>>
    /\ response' = None

(* the query resolves: onTabActivated(tabs[0].id) starts and awaits browser.tabs.get *)
FocusQueryDone ==
    /\ focusQuery
    /\ focusQuery' = FALSE
    /\ lookups' = IF activeTab # NoTabId THEN lookups \cup {activeTab} ELSE lookups
    /\ UNCHANGED <<now, today, tz, browserVars, trackerVars, storage, initPc, initLocal,
                   togglePc, clearPc, loadPc, loadLocal, historyVars, syncCalls, probe, load2Pc, load2Local, failedSaves, syncService, clearedBefore>>
    /\ response' = None

(* runtime.onMessage CONTENT_ACTIVITY_UPDATE from the content script of a tab *)
ContentActivityUpdate(tabId, activityData) ==
    /\ Delivered
    /\ tabUrl[tabId] # Closed
    /\ isValidUrl(tabUrl[tabId])
    /\ SetTracker(onContentActivityUpdate(Tracker, tabId, activityData))
    /\ response' = Response([action |-> "CONTENT_ACTIVITY_UPDATE", type |-> activityData.type,
                           data |-> activityData, sender |-> tabId], Bool(TRUE))
    /\ UNCHANGED <<now, today, tz, browserVars, isTrackingEnabled, historicalData, saveTimer,
                   saveDue, storage, asyncVars, call, probe, load2Pc, load2Local, failedSaves, syncService, clearedBefore>>

(* variant: the save is issued before the session is ended *)
Suspend_SavesFirst ==
    /\ Delivered
    /\ LET t == endCurrentSession(Tracker)
       IN /\ SetTracker(t)
          /\ storage' = IF dailyStats # None THEN [storage EXCEPT !.daily = dailyStats]
                        ELSE storage
    /\ saveTimer' = FALSE
    /\ saveDue' = FALSE
    /\ UNCHANGED <<now, today, tz, browserVars, isTrackingEnabled, historicalData, asyncVars,
                   call, probe, load2Pc, load2Local, failedSaves, syncService, clearedBefore>>
    /\ response' = None

(* runtime.onSuspend: tracker.cleanup() *)
Suspend ==
    /\ Delivered
    /\ LET t == endCurrentSession(Tracker)
       IN /\ SetTracker(t)
          /\ storage' = IF t.dailyStats # None THEN [storage EXCEPT !.daily = t.dailyStats]
                        ELSE storage
    /\ saveTimer' = FALSE
    /\ saveDue' = FALSE
    /\ UNCHANGED <<now, today, tz, browserVars, isTrackingEnabled, historicalData, asyncVars,
                   call, probe, load2Pc, load2Local, failedSaves, syncService, clearedBefore>>
    /\ response' = None

(* startTracking is a public method: a call with any tab descriptor, the    *)
(* id or the url of which may be missing                                   *)
ApiTabs == [id : {NoTabId} \cup TabIds, url : {NoUrl, UrlA, UrlChrome, UrlAbout}]

DirectStart(tab) ==
    /\ Delivered
    /\ call # tab
    /\ call' = tab
    /\ SetTracker(startTracking(Tracker, tab))
    /\ UNCHANGED <<now, today, tz, browserVars, isTrackingEnabled, historicalData, saveTimer,
                   saveDue, storage, asyncVars, probe, load2Pc, load2Local, failedSaves, syncService, clearedBefore>>
    /\ response' = None

----------------------------------------------------------------------------
(* Sync Forwarder: the progress of one addPendingSession call.  It awaits   *)
(* the read of the pending-sessions store ("get"), the write of the store  *)
(* ("set") and the update of the sync status ("status"); then it returns,  *)
(* after starting syncData when navigator.onLine.  A storage operation     *)
(* that rejects ends the call ("failed").                                  *)
SyncOutcomes == {"offline", "noBackend", "unauthenticated", "unreachable", "synced"}

SyncNext(pc) ==
    CASE pc = "get" -> {"set", "failed"}
      [] pc = "set" -> {"status", "failed"}
      [] pc = "status" -> SyncOutcomes \cup {"failed"}
      [] OTHER -> {}

AddPendingStep(id, next) ==
    /\ id \in DOMAIN syncCalls
    /\ next \in SyncNext(syncCalls[id])
    /\ syncCalls' = [syncCalls EXCEPT ![id] = next]
    /\ UNCHANGED <<now, today, tz, browserVars, trackerVars, storage, asyncVars, historyVars, probe, load2Pc, load2Local, failedSaves, syncService, clearedBefore>>
    /\ response' = None

----------------------------------------------------------------------------
(* loadDailyStats, shared by initialize and getDailyStats.                 *)
(* local = [stored, today, old]: storedStats as read, today as computed    *)
(* before the read, oldDailyStats.                                         *)

LoadLocal == [stored |-> storage.daily, today |-> today, old |-> None]

(* from the resumption after storage.get to the next await or the return:  *)
(* the new dailyStats, historicalData and storage, and where it stops      *)
loadDailyStats(local) ==
    LET storedStats == local.stored
    IN IF storedStats # Absent /\ storedStats.date = local.today
       THEN [dailyStats |-> storedStats, historicalData |-> historicalData,
             storage |-> storage, next |-> "return"]
       ELSE IF storedStats # Absent /\ ~archiveSkipped(historicalData, storedStats)
       THEN LET h == archiveDailyData(historicalData, storedStats)
            IN [dailyStats |-> storedStats, historicalData |-> h,
                storage |-> [storage EXCEPT !.historical = h], next |-> "archiveSave"]
       ELSE LET fresh == EmptyDailyStats(local.today)
            IN [dailyStats |-> fresh, historicalData |-> historicalData,
                storage |-> [storage EXCEPT !.daily = fresh], next |-> "saveDaily"]

(* after the await of archiveDailyData: restore, replace, save *)
loadDailyStatsArchived(local) ==
    LET fresh == EmptyDailyStats(local.today)
    IN [dailyStats |-> fresh, storage |-> [storage EXCEPT !.daily = fresh]]

----------------------------------------------------------------------------
(* tracker.initialize() *)

InitLoadSettingsDone ==
    /\ initPc = "loadSettings"
    /\ isTrackingEnabled' = IF initLocal = Absent THEN TRUE ELSE initLocal.trackingEnabled
    /\ initLocal' = LoadLocal
    /\ initPc' = "loadDaily"
    /\ UNCHANGED <<now, today, tz, browserVars, currentSession, currentTabId, dailyStats,
                   historicalData, contentActivityStatus, saveTimer, saveDue, storage,
                   togglePc, clearPc, loadPc, loadLocal, lookups, focusQuery, historyVars, syncCalls, probe, load2Pc, load2Local, failedSaves, syncService, clearedBefore>>
    /\ response' = None

InitLoadDailyDone ==
    /\ initPc = "loadDaily"
    /\ LET r == loadDailyStats(initLocal)
       IN /\ dailyStats' = r.dailyStats
          /\ historicalData' = r.historicalData
          /\ storage' = r.storage
          /\ IF r.next = "return"
             THEN initPc' = "loadHist" /\ initLocal' = [stored |-> storage.historical]
             ELSE initPc' = r.next /\ initLocal' = [initLocal EXCEPT !.old = dailyStats]
    /\ UNCHANGED <<now, today, tz, browserVars, isTrackingEnabled, currentSession, currentTabId,
                   contentActivityStatus, saveTimer, saveDue, togglePc, clearPc, loadPc,
                   loadLocal, lookups, focusQuery, historyVars, syncCalls, probe, load2Pc, load2Local, failedSaves, syncService, clearedBefore>>
    /\ response' = None

InitArchiveSaveDone ==
    /\ initPc = "archiveSave"
    /\ LET r == loadDailyStatsArchived(initLocal)
       IN dailyStats' = r.dailyStats /\ storage' = r.storage
    /\ initPc' = "saveDaily"
    /\ UNCHANGED <<now, today, tz, browserVars, isTrackingEnabled, currentSession, currentTabId,
                   historicalData, contentActivityStatus, saveTimer, saveDue, initLocal, togglePc,
                   clearPc, loadPc, loadLocal, lookups, focusQuery, historyVars, syncCalls, probe, load2Pc, load2Local, failedSaves, syncService, clearedBefore>>
    /\ response' = None

InitSaveDailyDone ==
    /\ initPc = "saveDaily"
    /\ initPc' = "loadHist"
    /\ initLocal' = [stored |-> storage.historical]
    /\ UNCHANGED <<now, today, tz, browserVars, trackerVars, storage, togglePc, clearPc, loadPc,
                   loadLocal, lookups, focusQuery, historyVars, syncCalls, probe, load2Pc, load2Local, failedSaves, syncService, clearedBefore>>
    /\ response' = None

(* variant: a stored record is adopted whatever its version *)
InitLoadHistDone_AdoptsAnyVersion ==
    /\ initPc = "loadHist"
    /\ LET storedData == initLocal.stored
           h == IF storedData # Absent
                THEN performDataCleanupIfNeeded(storedData)
                ELSE EmptyHistoricalData(today, now)
       IN /\ historicalData' = h
          /\ storage' = IF h # storedData THEN [storage EXCEPT !.historical = h] ELSE storage
    /\ initPc' = "query"
    /\ initLocal' = None
    /\ UNCHANGED <<now, today, tz, browserVars, isTrackingEnabled, currentSession, currentTabId,
                   dailyStats, contentActivityStatus, saveTimer, saveDue, togglePc,
                   clearPc, loadPc, loadLocal, lookups, focusQuery, historyVars, syncCalls, probe, load2Pc, load2Local, failedSaves, syncService, clearedBefore>>
    /\ response' = None

(* loadHistoricalData resumes; then performDataCleanupIfNeeded,            *)
(* syncService.initialize and browser.tabs.query are awaited               *)
InitLoadHistDone ==
    /\ initPc = "loadHist"
    /\ LET storedData == initLocal.stored
           h == IF storedData # Absent /\ storedData.version = DATA_VERSION
                THEN performDataCleanupIfNeeded(storedData)
                ELSE EmptyHistoricalData(today, now)
       IN /\ historicalData' = h
          /\ storage' = IF h # storedData THEN [storage EXCEPT !.historical = h] ELSE storage
    /\ initPc' = "query"
    /\ initLocal' = None
    /\ UNCHANGED <<now, today, tz, browserVars, isTrackingEnabled, currentSession, currentTabId,
                   dailyStats, contentActivityStatus, saveTimer, saveDue, togglePc,
                   clearPc, loadPc, loadLocal, lookups, focusQuery, historyVars, syncCalls, probe, load2Pc, load2Local, failedSaves, syncService, clearedBefore>>
    /\ response' = None

(* the query resolves: startTracking(tabs[0]) if enabled, then startSaveTimer *)
InitQueryDone ==
    /\ initPc = "query"
    /\ IF isTrackingEnabled /\ activeTab # NoTabId
       THEN SetTracker(startTracking(Tracker, [id |-> activeTab, url |-> tabUrl[activeTab]]))
       ELSE SetTracker(Tracker)
    /\ saveTimer' = TRUE
    /\ saveDue' = FALSE
    /\ initPc' = "done"
    /\ UNCHANGED <<now, today, tz, browserVars, isTrackingEnabled, historicalData, storage,
                   initLocal, togglePc, clearPc, loadPc, loadLocal, lookups, focusQuery,
                   call, events, probe, load2Pc, load2Local, failedSaves, syncService, clearedBefore>>
    /\ response' = None

----------------------------------------------------------------------------
(* TOGGLE_TRACKING: tracker.toggleTracking() *)

ToggleStart ==
    /\ Delivered
    /\ togglePc = "idle"
    /\ isTrackingEnabled' = ~isTrackingEnabled
    /\ storage' = [storage EXCEPT !.settings = [trackingEnabled |-> ~isTrackingEnabled]]
    /\ togglePc' = "save"
    /\ UNCHANGED <<now, today, tz, browserVars, currentSession, currentTabId, dailyStats,
                   historicalData, contentActivityStatus, saveTimer, saveDue, initPc, initLocal,
                   clearPc, loadPc, loadLocal, lookups, focusQuery, nextId, appendCount, call, syncCalls, probe, load2Pc, load2Local, failedSaves, syncService, clearedBefore>>
    /\ response' = None

(* variant: disabling tracking leaves the current session running *)
ToggleSaveDone_KeepsSession ==
    /\ togglePc = "save"
    /\ IF isTrackingEnabled
       THEN togglePc' = "query" /\ SetTracker(Tracker)
       ELSE togglePc' = "idle" /\ SetTracker(Tracker)
    /\ response' = IF isTrackingEnabled THEN None
                 ELSE Response([action |-> "TOGGLE_TRACKING"], Bool(isTrackingEnabled))
    /\ UNCHANGED <<now, today, tz, browserVars, isTrackingEnabled, historicalData, saveTimer,
                   saveDue, storage, initPc, initLocal, clearPc, loadPc, loadLocal, lookups,
                   focusQuery, call, events, probe, load2Pc, load2Local, failedSaves, syncService, clearedBefore>>

ToggleSaveDone ==
    /\ togglePc = "save"
    /\ IF isTrackingEnabled
       THEN togglePc' = "query" /\ SetTracker(Tracker)
       ELSE togglePc' = "idle" /\ SetTracker(endCurrentSession(Tracker))
    /\ response' = IF isTrackingEnabled THEN None
                 ELSE Response([action |-> "TOGGLE_TRACKING"], Bool(isTrackingEnabled))
    /\ UNCHANGED <<now, today, tz, browserVars, isTrackingEnabled, historicalData, saveTimer,
                   saveDue, storage, initPc, initLocal, clearPc, loadPc, loadLocal, lookups,
                   focusQuery, call, events, probe, load2Pc, load2Local, failedSaves, syncService, clearedBefore>>

ToggleQueryDone ==
    /\ togglePc = "query"
    /\ IF activeTab # NoTabId
       THEN SetTracker(startTracking(Tracker, [id |-> activeTab, url |-> tabUrl[activeTab]]))
       ELSE SetTracker(Tracker)
    /\ togglePc' = "idle"
    /\ response' = Response([action |-> "TOGGLE_TRACKING"], Bool(isTrackingEnabled))
    /\ UNCHANGED <<now, today, tz, browserVars, isTrackingEnabled, historicalData, saveTimer,
                   saveDue, storage, initPc, initLocal, clearPc, loadPc, loadLocal, lookups,
                   focusQuery, call, events, probe, load2Pc, load2Local, failedSaves, syncService, clearedBefore>>

----------------------------------------------------------------------------
(* CLEAR_DATA: tracker.clearAllData() *)

ClearedStorage == [settings |-> Absent, daily |-> Absent, historical |-> Absent]

ClearStart ==
    /\ Delivered
    /\ clearPc = "idle"
    /\ SetTracker(endCurrentSession(Tracker))
    /\ storage' = ClearedStorage
    /\ clearPc' = "clear"
    /\ clearedBefore' = nextId
    /\ UNCHANGED <<now, today, tz, browserVars, isTrackingEnabled, historicalData, saveTimer,
                   saveDue, initPc, initLocal, togglePc, loadPc, loadLocal, lookups, focusQuery,
                   call, probe, load2Pc, load2Local, failedSaves, syncService>>
    /\ response' = None

ClearStorageDone ==
    /\ clearPc = "clear"
    /\ dailyStats' = EmptyDailyStats(today)
    /\ historicalData' = EmptyHistoricalData(today, now)
    /\ currentSession' = None
    /\ storage' = [storage EXCEPT !.daily = EmptyDailyStats(today)]
    /\ clearPc' = "saveDaily"
    /\ UNCHANGED <<now, today, tz, browserVars, isTrackingEnabled, currentTabId,
                   contentActivityStatus, saveTimer, saveDue, initPc, initLocal, togglePc,
                   loadPc, loadLocal, lookups, focusQuery, historyVars, syncCalls, probe, load2Pc, load2Local, failedSaves, syncService, clearedBefore>>
    /\ response' = None

ClearSaveDailyDone ==
    /\ clearPc = "saveDaily"
    /\ storage' = IF historicalData # None THEN [storage EXCEPT !.historical = historicalData]
                  ELSE storage
    /\ clearPc' = "saveHist"
    /\ UNCHANGED <<now, today, tz, browserVars, trackerVars, initPc, initLocal, togglePc, loadPc,
                   loadLocal, lookups, focusQuery, historyVars, syncCalls, probe, load2Pc, load2Local, failedSaves, syncService, clearedBefore>>
    /\ response' = None

ClearSaveHistDone ==
    /\ clearPc = "saveHist"
    /\ clearPc' = "idle"
    /\ response' = Response([action |-> "CLEAR_DATA"], Bool(TRUE))
    /\ UNCHANGED <<now, today, tz, browserVars, trackerVars, storage, initPc, initLocal, togglePc,
                   loadPc, loadLocal, lookups, focusQuery, historyVars, syncCalls, probe, load2Pc, load2Local, failedSaves, syncService, clearedBefore>>

----------------------------------------------------------------------------
(* GET_DAILY_STATS: tracker.getDailyStats() *)

LoadStart ==
    /\ Delivered
    /\ loadPc = "idle"
    /\ loadLocal' = LoadLocal
    /\ loadPc' = "get"
    /\ UNCHANGED <<now, today, tz, browserVars, trackerVars, storage, initPc, initLocal, togglePc,
                   clearPc, lookups, focusQuery, nextId, appendCount, call, syncCalls, probe, load2Pc, load2Local, failedSaves, syncService, clearedBefore>>
    /\ response' = None

LoadGetDone ==
    /\ loadPc = "get"
    /\ LET r == loadDailyStats(loadLocal)
       IN /\ dailyStats' = r.dailyStats
          /\ historicalData' = r.historicalData
          /\ storage' = r.storage
          /\ loadPc' = IF r.next = "return" THEN "idle" ELSE r.next
          /\ loadLocal' = IF r.next = "return" THEN None
                          ELSE [loadLocal EXCEPT !.old = dailyStats]
    /\ response' = IF loadDailyStats(loadLocal).next = "return"
                 THEN Response([action |-> "GET_DAILY_STATS"], loadDailyStats(loadLocal).dailyStats)
                 ELSE None
    /\ UNCHANGED <<now, today, tz, browserVars, isTrackingEnabled, currentSession, currentTabId,
                   contentActivityStatus, saveTimer, saveDue, initPc, initLocal, togglePc,
                   clearPc, lookups, focusQuery, historyVars, syncCalls, probe, load2Pc, load2Local, failedSaves, syncService, clearedBefore>>

LoadArchiveSaveDone ==
    /\ loadPc = "archiveSave"
    /\ LET r == loadDailyStatsArchived(loadLocal)
       IN dailyStats' = r.dailyStats /\ storage' = r.storage
    /\ loadPc' = "saveDaily"
    /\ UNCHANGED <<now, today, tz, browserVars, isTrackingEnabled, currentSession, currentTabId,
                   historicalData, contentActivityStatus, saveTimer, saveDue, initPc, initLocal,
                   togglePc, clearPc, loadLocal, lookups, focusQuery, historyVars, syncCalls, probe, load2Pc, load2Local, failedSaves, syncService, clearedBefore>>
    /\ response' = None

LoadSaveDailyDone ==
    /\ loadPc = "saveDaily"
    /\ loadPc' = "idle"
    /\ loadLocal' = None
    /\ response' = Response([action |-> "GET_DAILY_STATS"], dailyStats)
    /\ UNCHANGED <<now, today, tz, browserVars, trackerVars, storage, initPc, initLocal, togglePc,
                   clearPc, lookups, focusQuery, historyVars, syncCalls, probe, load2Pc, load2Local, failedSaves, syncService, clearedBefore>>

----------------------------------------------------------------------------
(* initialize() is fired at boot and not awaited: the events interleave with it *)
Next ==
    \/ InitLoadSettingsDone
    \/ InitLoadDailyDone
    \/ InitArchiveSaveDone
    \/ InitSaveDailyDone
    \/ InitLoadHistDone
    \/ InitQueryDone
    \/ \E d \in Steps : Advance(d)
    \/ Midnight
    \/ SaveTick
    \/ \E tabId \in TabIds : TabActivated(tabId)
    \/ \E tabId \in TabIds : TabLookupDone(tabId)
    \/ \E tabId \in TabIds, url \in Urls : TabUpdated(tabId, url)
    \/ \E tabId \in TabIds : TabRemoved(tabId)
    \/ FocusLost
    \/ FocusGained
    \/ FocusQueryDone
    \/ \E tabId \in TabIds, activityData \in Signals : ContentActivityUpdate(tabId, activityData)
    \/ Suspend
    \/ ToggleStart
    \/ ToggleSaveDone
    \/ ToggleQueryDone
    \/ ClearStart
    \/ ClearStorageDone
    \/ ClearSaveDailyDone
    \/ ClearSaveHistDone
    \/ LoadStart
    \/ LoadGetDone
    \/ LoadArchiveSaveDone
    \/ LoadSaveDailyDone

Spec == Init /\ [][Next]_vars

(* the tracker with direct calls of startTracking next to the boot, the    *)
(* clock, navigation, activity signals and the tracking toggle             *)
NextApi ==
    \/ InitLoadSettingsDone
    \/ InitLoadDailyDone
    \/ InitSaveDailyDone
    \/ InitLoadHistDone
    \/ InitQueryDone
    \/ \E d \in Steps : Advance(d)
    \/ SaveTick
    \/ \E tabId \in TabIds, url \in Urls : TabUpdated(tabId, url)
    \/ \E tabId \in TabIds, activityData \in Signals : ContentActivityUpdate(tabId, activityData)
    \/ ToggleStart
    \/ ToggleSaveDone
    \/ ToggleQueryDone
    \/ \E tab \in ApiTabs : DirectStart(tab)

SpecApi == Init /\ [][NextApi]_vars

(* the tracker with the Sync Forwarder: every way a session ends, and the  *)
(* addPendingSession calls going on in the background                      *)
SessionIds == 1..(MaxEvents + 1)

NextSync ==
    \/ InitLoadSettingsDone
    \/ InitLoadDailyDone
    \/ InitSaveDailyDone
    \/ InitLoadHistDone
    \/ InitQueryDone
    \/ \E d \in Steps : Advance(d)
    \/ SaveTick
    \/ \E tabId \in TabIds, url \in Urls : TabUpdated(tabId, url)
    \/ \E tabId \in TabIds : TabRemoved(tabId)
    \/ FocusLost
    \/ Suspend
    \/ ToggleStart
    \/ ToggleSaveDone
    \/ ToggleQueryDone
    \/ ClearStart
    \/ ClearStorageDone
    \/ ClearSaveDailyDone
    \/ ClearSaveHistDone
    \/ \E id \in SessionIds, next \in SyncOutcomes \cup {"set", "status", "failed"} :
          AddPendingStep(id, next)

SpecSync == Init /\ [][NextSync]_vars

(* getWeekStart on its own: called once with new Date(dateString) for a    *)
(* date of two weeks, on a device west of UTC, in UTC or east of UTC       *)
AllTimeZones == {-1, 0, 1}

InitWeek ==
    /\ today = 0
    /\ tz \in AllTimeZones
    /\ storage \in InitialStorage
    /\ probe \in {[date |-> d, weekStart |-> {}] : d \in 0..MaxDate}
    /\ InitTracker

WeekStartCall ==
    /\ probe.weekStart = {}
    /\ probe' = [probe EXCEPT !.weekStart = {getWeekStart(probe.date)}]
    /\ UNCHANGED <<now, today, tz, browserVars, trackerVars, storage, asyncVars, historyVars,
                   syncCalls, load2Pc, load2Local, failedSaves, syncService, clearedBefore>>
    /\ response' = None

NextWeek ==
    \/ WeekStartCall

SpecWeek == InitWeek /\ [][NextWeek]_vars

(* the boot of a profile with weekly entries of three old weeks, on a day  *)
(* about twelve weeks later, with the last cleanup a week or two ago       *)
OldWeeks == {4, 11, 18}
CleanupDays == 95..102
LastCleanups == {Timestamp(date, time) : date \in {88, 95}, time \in {0, SAVE_INTERVAL}}

OldWeek(weekStart) ==
    [weekStart |-> weekStart, totalTime |-> SAVE_INTERVAL,
     dailyBreakdown |-> Put(EmptyMap, weekStart, SAVE_INTERVAL),
     topDomains |-> Put(EmptyMap, "a.com", SAVE_INTERVAL), sessionCount |-> 1]

OldHistoricalData(weeks, lastCleanup) ==
    [version |-> DATA_VERSION, lastCleanup |-> lastCleanup,
     weeklyStats |-> [w \in weeks |-> OldWeek(w)],
     allTimeTotals |-> [totalTime |-> Cardinality(weeks) * SAVE_INTERVAL,
                        sessionCount |-> Cardinality(weeks),
                        firstTrackingDate |-> 0,
                        topDomains |-> Put(EmptyMap, "a.com",
                                           Cardinality(weeks) * SAVE_INTERVAL)]]

InitCleanup ==
    /\ today \in CleanupDays
    /\ tz \in TimeZones
    /\ storage \in {[settings |-> Absent, daily |-> Absent,
                      historical |-> OldHistoricalData(weeks, lastCleanup)] :
                        weeks \in SUBSET OldWeeks, lastCleanup \in LastCleanups}
    /\ probe = None
    /\ InitTracker

NextCleanup ==
    \/ \E d \in Steps : Advance(d)
    \/ InitLoadSettingsDone
    \/ InitLoadDailyDone
    \/ InitSaveDailyDone
    \/ InitLoadHistDone
    \/ InitQueryDone

SpecCleanup == InitCleanup /\ [][NextCleanup]_vars

(* a profile whose stored day is today at boot and a day old after         *)
(* midnight: a day of zero-duration sessions only, or a day with time on   *)
(* it; getDailyStats after midnight archives it                            *)
ZeroSession == [PrevSession EXCEPT !.lastActive = @ - SAVE_INTERVAL, !.totalTime = 0]

ZeroDailyStats ==
    [date |-> 0, domains |-> Put(EmptyMap, "a.com", 0), totalTime |-> 0,
     sessions |-> <<ZeroSession>>]

(* a day of two sessions on two domains *)
BusySession == [PrevSession EXCEPT !.url = UrlB, !.domain = "b.com",
                                   !.lastActive = @ + IDLE_THRESHOLD,
                                   !.totalTime = @ + IDLE_THRESHOLD]

BusyDailyStats ==
    [date |-> 0,
     domains |-> Put(Put(EmptyMap, "a.com", SAVE_INTERVAL), "b.com",
                     SAVE_INTERVAL + IDLE_THRESHOLD),
     totalTime |-> 2 * SAVE_INTERVAL + IDLE_THRESHOLD,
     sessions |-> <<PrevSession, BusySession>>]

InitArchive ==
    /\ today = 0
    /\ tz \in TimeZones
    /\ storage \in {[settings |-> Absent, daily |-> daily, historical |-> historical] :
                      daily \in {ZeroDailyStats, PrevDailyStats, BusyDailyStats,
                                EmptyDailyStats(0)},
                      historical \in {EmptyHistoricalData(0, 0),
                                      OldHistoricalData({-3}, Timestamp(0, 0)),
                                      OldHistoricalData({-10, -3}, Timestamp(0, 0))}}
    /\ probe = None
    /\ InitTracker

NextArchive ==
    \/ InitLoadSettingsDone
    \/ InitLoadDailyDone
    \/ InitSaveDailyDone
    \/ InitLoadHistDone
    \/ InitQueryDone
    \/ Midnight
    \/ LoadStart
    \/ LoadGetDone
    \/ LoadArchiveSaveDone
    \/ LoadSaveDailyDone

SpecArchive == InitArchive /\ [][NextArchive]_vars

----------------------------------------------------------------------------
(* runtime.onMessage: the requests that are answered in one step, the       *)
(* actions no case matches, and the rejections of the awaited calls         *)

GetCurrentSession ==
    /\ Delivered
    /\ response' = Response([action |-> "GET_CURRENT_SESSION"], currentSession)
    /\ UNCHANGED <<now, today, tz, browserVars, trackerVars, storage, asyncVars, nextId,
                   appendCount, call, syncCalls, probe, load2Pc, load2Local, failedSaves, syncService, clearedBefore>>

GetTrackingStatus ==
    /\ Delivered
    /\ response' = Response([action |-> "GET_TRACKING_STATUS"], Bool(isTrackingEnabled))
    /\ UNCHANGED <<now, today, tz, browserVars, trackerVars, storage, asyncVars, nextId,
                   appendCount, call, syncCalls, probe, load2Pc, load2Local, failedSaves, syncService, clearedBefore>>

UnknownActions == {"PING"}

UnknownAction(action) ==
    /\ Delivered
    /\ response' = Response([action |-> action], None)
    /\ UNCHANGED <<now, today, tz, browserVars, trackerVars, storage, asyncVars, nextId,
                   appendCount, call, syncCalls, probe, load2Pc, load2Local, failedSaves, syncService, clearedBefore>>

(* a signal whose type is none of 'activity', 'idle', 'visibility' *)
UnknownSignals == {Signal("scroll", {}, {})}

(* loadSettings catches the rejection of its read and goes on with the default *)
InitLoadSettingsFail ==
    /\ initPc = "loadSettings"
    /\ isTrackingEnabled' = TRUE
    /\ initLocal' = LoadLocal
    /\ initPc' = "loadDaily"
    /\ UNCHANGED <<now, today, tz, browserVars, currentSession, currentTabId, dailyStats,
                   historicalData, contentActivityStatus, saveTimer, saveDue, storage,
                   togglePc, clearPc, loadPc, loadLocal, lookups, focusQuery, historyVars,
                   syncCalls, probe, load2Pc, load2Local, failedSaves, syncService, clearedBefore>>
    /\ response' = None

(* an awaited call of initialize rejects: the catch of initialize logs it  *)
(* and initialize returns                                                  *)
InitFail(pc) ==
    /\ initPc = pc
    /\ initPc' = "failed"
    /\ initLocal' = None
    /\ UNCHANGED <<now, today, tz, browserVars, trackerVars, storage, togglePc, clearPc,
                   loadPc, loadLocal, lookups, focusQuery, historyVars, syncCalls, probe, load2Pc, load2Local, failedSaves, syncService, clearedBefore>>
    /\ response' = None

(* the read of loadDailyStats rejects, the read of loadHistoricalData        *)
(* rejects, syncService.initialize or browser.tabs.query rejects           *)
FailPoints == {"loadDaily", "loadHist", "query"}

(* variant: the rejection of getDailyStats is not caught, nothing is sent *)
LoadGetFail_NotCaught ==
    /\ loadPc = "get"
    /\ loadPc' = "idle"
    /\ loadLocal' = None
    /\ response' = None
    /\ UNCHANGED <<now, today, tz, browserVars, trackerVars, storage, initPc, initLocal,
                   togglePc, clearPc, lookups, focusQuery, historyVars, syncCalls, probe, load2Pc, load2Local, failedSaves, syncService, clearedBefore>>

(* the read of loadDailyStats rejects in GET_DAILY_STATS: the catch of the  *)
(* message handler answers null                                            *)
LoadGetFail ==
    /\ loadPc = "get"
    /\ loadPc' = "idle"
    /\ loadLocal' = None
    /\ response' = Response([action |-> "GET_DAILY_STATS"], None)
    /\ UNCHANGED <<now, today, tz, browserVars, trackerVars, storage, initPc, initLocal,
                   togglePc, clearPc, lookups, focusQuery, historyVars, syncCalls, probe, load2Pc, load2Local, failedSaves, syncService, clearedBefore>>

NextMsg ==
    \/ InitLoadSettingsDone
    \/ InitLoadSettingsFail
    \/ InitLoadDailyDone
    \/ InitSaveDailyDone
    \/ InitLoadHistDone
    \/ InitQueryDone
    \/ \E pc \in FailPoints : InitFail(pc)
    \/ \E d \in Steps : Advance(d)
    \/ \E tabId \in TabIds : TabActivated(tabId)
    \/ \E tabId \in TabIds : TabLookupDone(tabId)
    \/ \E tabId \in TabIds, activityData \in Signals \cup UnknownSignals :
          ContentActivityUpdate(tabId, activityData)
    \/ GetCurrentSession
    \/ GetTrackingStatus
    \/ \E action \in UnknownActions : UnknownAction(action)
    \/ ToggleStart
    \/ ToggleSaveDone
    \/ ToggleQueryDone
    \/ LoadStart
    \/ LoadGetDone
    \/ LoadGetFail
    \/ LoadSaveDailyDone

SpecMsg == Init /\ [][NextMsg]_vars

(* a storage call or a tab query that was issued settles *)
FairSpecMsg ==
    /\ SpecMsg
    /\ WF_vars(LoadGetDone \/ LoadGetFail)
    /\ WF_vars(LoadSaveDailyDone)
    /\ WF_vars(ToggleSaveDone)
    /\ WF_vars(ToggleQueryDone)

----------------------------------------------------------------------------
(* The activity signals on their own: every payload a content script can   *)
(* send, sent now or a save interval ago, from an open tab or from a tab   *)
(* that was closed while the message was on its way                        *)

AbsentPayloadSignals == {Signal("activity", {}, {}), Signal("visibility", {}, {})}

SentAt == {now} \cup (IF now >= SAVE_INTERVAL THEN {now - SAVE_INTERVAL} ELSE {})

SentSignals ==
    {[s EXCEPT !.timestamp = ts] :
        s \in Signals \cup AbsentPayloadSignals \cup UnknownSignals, ts \in SentAt}

(* the tabs whose page ran the content script when the worker booted *)
ContentTabs == {tabId \in TabIds : tabId = 1}

(* runtime.onMessage CONTENT_ACTIVITY_UPDATE of a tab that has been closed: *)
(* the message was sent before the tab closed and is delivered after       *)
(* tabs.onRemoved; the order of the two events is the browser's            *)
LateContentActivityUpdate(tabId, activityData) ==
    /\ Delivered
    /\ tabId \in ContentTabs
    /\ tabUrl[tabId] = Closed
    /\ SetTracker(onContentActivityUpdate(Tracker, tabId, activityData))
    /\ response' = Response([action |-> "CONTENT_ACTIVITY_UPDATE", type |-> activityData.type,
                           data |-> activityData, sender |-> tabId], Bool(TRUE))
    /\ UNCHANGED <<now, today, tz, browserVars, isTrackingEnabled, historicalData, saveTimer,
                   saveDue, storage, asyncVars, call, probe, load2Pc, load2Local, failedSaves, syncService, clearedBefore>>

NextSignal ==
    \/ InitLoadSettingsDone
    \/ InitLoadDailyDone
    \/ InitSaveDailyDone
    \/ InitLoadHistDone
    \/ InitQueryDone
    \/ \E d \in Steps : Advance(d)
    \/ SaveTick
    \/ \E tabId \in TabIds : TabActivated(tabId)
    \/ \E tabId \in TabIds : TabLookupDone(tabId)
    \/ \E tabId \in TabIds : TabRemoved(tabId)
    \/ \E tabId \in TabIds, activityData \in SentSignals :
          ContentActivityUpdate(tabId, activityData)
    \/ \E tabId \in TabIds, activityData \in SentSignals :
          LateContentActivityUpdate(tabId, activityData)

SpecSignal == Init /\ [][NextSignal]_vars

----------------------------------------------------------------------------
(* Two GET_DAILY_STATS requests at a time: the popup and the dashboard     *)
(* each send one; each runs getDailyStats with its own locals and the      *)
(* two interleave at their awaits                                          *)

SecondLoadStart ==
    /\ Delivered
    /\ load2Pc = "idle"
    /\ load2Local' = LoadLocal
    /\ load2Pc' = "get"
    /\ UNCHANGED <<now, today, tz, browserVars, trackerVars, storage, initPc, initLocal, togglePc,
                   clearPc, lookups, focusQuery, nextId, appendCount, call, syncCalls, probe, loadPc, loadLocal, failedSaves, syncService, clearedBefore>>
    /\ response' = None

SecondLoadGetDone ==
    /\ load2Pc = "get"
    /\ LET r == loadDailyStats(load2Local)
       IN /\ dailyStats' = r.dailyStats
          /\ historicalData' = r.historicalData
          /\ storage' = r.storage
          /\ load2Pc' = IF r.next = "return" THEN "idle" ELSE r.next
          /\ load2Local' = IF r.next = "return" THEN None
                          ELSE [load2Local EXCEPT !.old = dailyStats]
    /\ response' = IF loadDailyStats(load2Local).next = "return"
                 THEN Response([action |-> "GET_DAILY_STATS"], loadDailyStats(load2Local).dailyStats)
                 ELSE None
    /\ UNCHANGED <<now, today, tz, browserVars, isTrackingEnabled, currentSession, currentTabId,
                   contentActivityStatus, saveTimer, saveDue, initPc, initLocal, togglePc,
                   clearPc, lookups, focusQuery, historyVars, syncCalls, probe, loadPc, loadLocal, failedSaves, syncService, clearedBefore>>

SecondLoadArchiveSaveDone ==
    /\ load2Pc = "archiveSave"
    /\ LET r == loadDailyStatsArchived(load2Local)
       IN dailyStats' = r.dailyStats /\ storage' = r.storage
    /\ load2Pc' = "saveDaily"
    /\ UNCHANGED <<now, today, tz, browserVars, isTrackingEnabled, currentSession, currentTabId,
                   historicalData, contentActivityStatus, saveTimer, saveDue, initPc, initLocal,
                   togglePc, clearPc, load2Local, lookups, focusQuery, historyVars, syncCalls, probe, loadPc, loadLocal, failedSaves, syncService, clearedBefore>>
    /\ response' = None

SecondLoadSaveDailyDone ==
    /\ load2Pc = "saveDaily"
    /\ load2Pc' = "idle"
    /\ load2Local' = None
    /\ response' = Response([action |-> "GET_DAILY_STATS"], dailyStats)
    /\ UNCHANGED <<now, today, tz, browserVars, trackerVars, storage, initPc, initLocal, togglePc,
                   clearPc, lookups, focusQuery, historyVars, syncCalls, probe, loadPc, loadLocal, failedSaves, syncService, clearedBefore>>

(* a profile left by an earlier run on day 0, booted on day 0; after       *)
(* midnight two requests for the stats                                     *)
InitReentry ==
    /\ today = 0
    /\ tz \in TimeZones
    /\ storage \in {[settings |-> Absent, daily |-> daily, historical |-> historical] :
                      daily \in {PrevDailyStats, BusyDailyStats},
                      historical \in {EmptyHistoricalData(0, 0),
                                      OldHistoricalData({-10, -3}, Timestamp(0, 0))}}
    /\ probe = None
    /\ InitTracker

NextReentry ==
    \/ InitLoadSettingsDone
    \/ InitLoadDailyDone
    \/ InitSaveDailyDone
    \/ InitLoadHistDone
    \/ InitQueryDone
    \/ Midnight
    \/ LoadStart
    \/ LoadGetDone
    \/ LoadArchiveSaveDone
    \/ LoadSaveDailyDone
    \/ SecondLoadStart
    \/ SecondLoadGetDone
    \/ SecondLoadArchiveSaveDone
    \/ SecondLoadSaveDailyDone

SpecReentry == InitReentry /\ [][NextReentry]_vars

----------------------------------------------------------------------------
(* Historical Data over its life: a profile with the week of day 0 begun   *)
(* (day -1 archived) and weeks of about twelve weeks ago; the boot with    *)
(* the cleanup due or not, midnight, requests for the stats that archive   *)
(* day 0, and CLEAR_DATA                                                   *)

(* a data version other than the expected one, met in a stored record *)
OtherVersions == {"0.9.0"}

RecentWeek ==
    [weekStart |-> -3, totalTime |-> 2 * SAVE_INTERVAL,
     dailyBreakdown |-> Put(EmptyMap, -1, 2 * SAVE_INTERVAL),
     topDomains |-> Put(EmptyMap, "a.com", 2 * SAVE_INTERVAL), sessionCount |-> 2]

PastWeeks == {-94, -87}

History(weeks, lastCleanup) ==
    LET h == OldHistoricalData(weeks \cup {-3}, lastCleanup)
    IN [h EXCEPT !.weeklyStats[-3] = RecentWeek,
                 !.allTimeTotals.totalTime = @ + SAVE_INTERVAL,
                 !.allTimeTotals.sessionCount = @ + 1,
                 !.allTimeTotals.topDomains["a.com"] = @ + SAVE_INTERVAL,
                 !.allTimeTotals.firstTrackingDate = -94]

InitHistory ==
    /\ today = 0
    /\ tz \in TimeZones
    /\ storage \in {[settings |-> Absent, daily |-> daily,
                     historical |-> [History(weeks, lastCleanup) EXCEPT !.version = version]] :
                      daily \in {PrevDailyStats, BusyDailyStats},
                      weeks \in SUBSET PastWeeks,
                      version \in {DATA_VERSION} \cup OtherVersions,
                      lastCleanup \in {Timestamp(-CLEANUP_INTERVAL_DAYS, 0), Timestamp(0, 0)}}
    /\ probe = None
    /\ InitTracker

NextHistory ==
    \/ InitLoadSettingsDone
    \/ InitLoadDailyDone
    \/ InitSaveDailyDone
    \/ InitLoadHistDone
    \/ InitQueryDone
    \/ Midnight
    \/ LoadStart
    \/ LoadGetDone
    \/ LoadArchiveSaveDone
    \/ LoadSaveDailyDone
    \/ ClearStart
    \/ ClearStorageDone
    \/ ClearSaveDailyDone
    \/ ClearSaveHistDone

SpecHistory == InitHistory /\ [][NextHistory]_vars

(* the boot of a profile whose Historical Data is missing, or was written  *)
(* under another data version, or is of the expected version               *)
InitVersion ==
    /\ today \in 0..MaxDay
    /\ tz \in TimeZones
    /\ storage \in {[settings |-> Absent, daily |-> Absent, historical |-> historical] :
                      historical \in {Absent} \cup
                          {[History(weeks, lastCleanup) EXCEPT !.version = version] :
                              weeks \in SUBSET PastWeeks,
                              lastCleanup \in {Timestamp(-CLEANUP_INTERVAL_DAYS, 0),
                                               Timestamp(0, 0)},
                              version \in {DATA_VERSION} \cup OtherVersions}}
    /\ probe = None
    /\ InitTracker

NextVersion ==
    \/ \E d \in Steps : Advance(d)
    \/ InitLoadSettingsDone
    \/ InitLoadDailyDone
    \/ InitSaveDailyDone
    \/ InitLoadHistDone
    \/ InitQueryDone

SpecVersion == InitVersion /\ [][NextVersion]_vars

(* the tracker with a storage that may reject the write of a periodic save *)
NextSave ==
    \/ InitLoadSettingsDone
    \/ InitLoadDailyDone
    \/ InitSaveDailyDone
    \/ InitLoadHistDone
    \/ InitQueryDone
    \/ \E d \in Steps : Advance(d)
    \/ SaveTick
    \/ SaveTickFail
    \/ \E tabId \in TabIds : TabActivated(tabId)
    \/ \E tabId \in TabIds : TabLookupDone(tabId)
    \/ FocusLost

SpecSave == Init /\ [][NextSave]_vars

----------------------------------------------------------------------------
(* TOGGLE_TRACKING with a storage that may reject the write of the         *)
(* settings: toggleTracking has flipped the flag before it awaits          *)
(* saveSettings, saveSettings logs the rejection and throws it again, and  *)
(* the message handler's catch answers null                                *)

ToggleStartRejected ==
    /\ Delivered
    /\ togglePc = "idle"
    /\ isTrackingEnabled' = ~isTrackingEnabled
    /\ togglePc' = "saveRejected"
    /\ UNCHANGED <<now, today, tz, browserVars, currentSession, currentTabId, dailyStats,
                   historicalData, contentActivityStatus, saveTimer, saveDue, storage, initPc,
                   initLocal, clearPc, loadPc, loadLocal, lookups, focusQuery, nextId,
                   appendCount, call, syncCalls, probe, load2Pc, load2Local, failedSaves,
                   syncService, clearedBefore>>
    /\ response' = None

ToggleSaveFail ==
    /\ togglePc = "saveRejected"
    /\ togglePc' = "idle"
    /\ response' = Response([action |-> "TOGGLE_TRACKING"], None)
    /\ UNCHANGED <<now, today, tz, browserVars, isTrackingEnabled, currentSession, currentTabId,
                   dailyStats, historicalData, contentActivityStatus, saveTimer, saveDue,
                   storage, initPc, initLocal, clearPc, loadPc, loadLocal, lookups, focusQuery,
                   nextId, appendCount, call, events, syncCalls, probe, load2Pc, load2Local,
                   failedSaves, syncService, clearedBefore>>

NextToggle ==
    \/ InitLoadSettingsDone
    \/ InitLoadDailyDone
    \/ InitSaveDailyDone
    \/ InitLoadHistDone
    \/ InitQueryDone
    \/ \E d \in Steps : Advance(d)
    \/ \E tabId \in TabIds : TabActivated(tabId)
    \/ \E tabId \in TabIds : TabLookupDone(tabId)
    \/ ToggleStart
    \/ ToggleStartRejected
    \/ ToggleSaveDone
    \/ ToggleSaveFail
    \/ ToggleQueryDone

SpecToggle == Init /\ [][NextToggle]_vars

----------------------------------------------------------------------------
(* DataSyncService on its own.  Storage reads return what the store held   *)
(* when the read was issued and writes take effect when they are issued; a *)
(* call resumes in a later step.  supabase is configured.                  *)

trackerFrame == <<now, today, tz, browserVars, trackerVars, storage, asyncVars, historyVars,
                  syncCalls, probe, load2Pc, load2Local, failedSaves,
                  clearedBefore>>

(* syncData up to its first await, supabase.auth.getUser() *)
syncData == [pc |-> "getUser", pendingSessions |-> <<>>]

(* the catch block of syncData up to its first await, the read of          *)
(* getPendingSessionsCount                                                 *)
syncDataCaught(svc) == [pc |-> "countGet", pendingSessions |-> svc.pending_sessions]

(* addPendingSession(session) is called: getPendingSessions issues its read *)
AddPendingSession(session) ==
    /\ syncService.adds[session].pc = "idle"
    /\ \A s \in ForwardedSessions : s < session => syncService.adds[s].pc # "idle"
    /\ syncService' = [syncService EXCEPT !.adds[session] =
                          [pc |-> "get", pendingSessions |-> syncService.pending_sessions]]
    /\ UNCHANGED trackerFrame
    /\ response' = None

(* the read resumes: the session is pushed and the list written back *)
AddGetDone(session) ==
    /\ syncService.adds[session].pc = "get"
    /\ LET pendingSessions == Append(syncService.adds[session].pendingSessions, session)
       IN syncService' = [syncService EXCEPT
                            !.pending_sessions = pendingSessions,
                            !.adds[session] = [pc |-> "set", pendingSessions |-> pendingSessions]]
    /\ UNCHANGED trackerFrame
    /\ response' = None

(* the write resumes and updateSyncStatus reads sync_status and writes the *)
(* status: all three fields are given, so what it read is overridden, and  *)
(* the two awaits are one step                                             *)
AddSetDone(session) ==
    /\ syncService.adds[session].pc = "set"
    /\ syncService' = [syncService EXCEPT
                          !.sync_status =
                              SyncStatus(None, FALSE, Len(syncService.adds[session].pendingSessions)),
                          !.adds[session].pc = "statusSet"]
    /\ UNCHANGED trackerFrame
    /\ response' = None

(* the call ends, starting syncData, not awaited, when navigator.onLine *)
AddStatusSetDone(session) ==
    /\ syncService.adds[session].pc = "statusSet"
    /\ syncService' = [syncService EXCEPT
                          !.adds[session].pc = "done",
                          !.runs[session] = IF syncService.onLine THEN syncData ELSE @]
    /\ UNCHANGED trackerFrame
    /\ response' = None

(* the interval of startPeriodicSync fires, or FORCE_SYNC is handled *)
PeriodicSync ==
    /\ syncService.syncInterval
    /\ syncService.runs[0].pc = "idle"
    /\ syncService' = [syncService EXCEPT !.runs[0] = syncData]
    /\ UNCHANGED trackerFrame
    /\ response' = None

(* getUser resumes: it throws when the backend cannot be reached, has no   *)
(* user after a sign-out (syncData returns false), or syncPendingSessions  *)
(* issues its read                                                         *)
GetUserDone(run) ==
    /\ syncService.runs[run].pc = "getUser"
    /\ syncService' = [syncService EXCEPT !.runs[run] =
                          IF ~syncService.reachable THEN syncDataCaught(syncService)
                          ELSE IF ~syncService.user THEN IdleCall
                          ELSE [pc |-> "pendingGet",
                                pendingSessions |-> syncService.pending_sessions]]
    /\ UNCHANGED trackerFrame
    /\ response' = None

(* the read resumes: nothing pending, or the insert is sent *)
PendingGetDone(run) ==
    /\ syncService.runs[run].pc = "pendingGet"
    /\ syncService' = [syncService EXCEPT !.runs[run].pc =
                          IF syncService.runs[run].pendingSessions = <<>> THEN "dailyStats"
                          ELSE "insert"]
    /\ UNCHANGED trackerFrame
    /\ response' = None

(* the insert resumes: with an error, thrown to syncData's catch, or with  *)
(* the rows inserted, and clearPendingSessions removes the key; its await  *)
(* and the first of syncDailyStats are one step                            *)
InsertDone(run) ==
    /\ syncService.runs[run].pc = "insert"
    /\ syncService' =
          IF ~syncService.reachable
          THEN [syncService EXCEPT !.runs[run] = syncDataCaught(syncService)]
          ELSE [syncService EXCEPT
                  !.browsing_sessions = @ \o syncService.runs[run].pendingSessions,
                  !.pending_sessions = <<>>,
                  !.runs[run].pc = "dailyStats"]
    /\ UNCHANGED trackerFrame
    /\ response' = None

(* syncDailyStats returns, and updateSyncStatus reads sync_status and      *)
(* writes the status of a completed sync; or one of syncDailyStats's       *)
(* requests fails and it throws                                            *)
DailyStatsDone(run) ==
    /\ syncService.runs[run].pc = "dailyStats"
    /\ syncService' =
          IF ~syncService.reachable
          THEN [syncService EXCEPT !.runs[run] = syncDataCaught(syncService)]
          ELSE [syncService EXCEPT
                  !.sync_status = SyncStatus(Timestamp(today, now), TRUE, 0),
                  !.runs[run].pc = "statusSet"]
    /\ UNCHANGED trackerFrame
    /\ response' = None

(* syncData returns true *)
StatusSetDone(run) ==
    /\ syncService.runs[run].pc = "statusSet"
    /\ syncService' = [syncService EXCEPT !.runs[run] = IdleCall]
    /\ UNCHANGED trackerFrame
    /\ response' = None

(* in the catch block getPendingSessionsCount resumes and updateSyncStatus *)
(* reads sync_status and writes the status of a failed sync                *)
CountGetDone(run) ==
    /\ syncService.runs[run].pc = "countGet"
    /\ syncService' = [syncService EXCEPT
                          !.sync_status =
                              SyncStatus(None, FALSE, Len(syncService.runs[run].pendingSessions)),
                          !.runs[run].pc = "failStatusSet"]
    /\ UNCHANGED trackerFrame
    /\ response' = None

(* setTimeout(() => this.syncData(), RETRY_DELAY_MS); syncData returns false *)
FailStatusSetDone(run) ==
    /\ syncService.runs[run].pc = "failStatusSet"
    /\ syncService' = [syncService EXCEPT !.runs[run] =
                          [pc |-> "retry", pendingSessions |-> <<>>, delay |-> RETRY_DELAY_MS]]
    /\ UNCHANGED trackerFrame
    /\ response' = None

(* the retry timer fires *)
RetrySync(run) ==
    /\ syncService.runs[run].pc = "retry"
    /\ syncService' = [syncService EXCEPT !.runs[run] = syncData]
    /\ UNCHANGED trackerFrame
    /\ response' = None

(* the backend becomes unreachable, and reachable again *)
BackendDown ==
    /\ syncService.reachable
    /\ syncService' = [syncService EXCEPT !.reachable = FALSE]
    /\ UNCHANGED trackerFrame
    /\ response' = None

BackendUp ==
    /\ ~syncService.reachable
    /\ syncService' = [syncService EXCEPT !.reachable = TRUE]
    /\ UNCHANGED trackerFrame
    /\ response' = None

(* SIGN_OUT: signOut awaits supabase.auth.signOut *)
SignOut ==
    /\ syncService.signOut = "idle"
    /\ syncService.user
    /\ syncService' = [syncService EXCEPT !.signOut = "authSignOut"]
    /\ UNCHANGED trackerFrame
    /\ response' = None

(* the user is signed out, the SIGNED_OUT listener stops the periodic sync *)
(* and signOut goes on to the cached token and to updateSyncStatus         *)
SignOutAuthDone ==
    /\ syncService.signOut = "authSignOut"
    /\ syncService' = [syncService EXCEPT !.user = FALSE, !.syncInterval = FALSE,
                                          !.signOut = "token"]
    /\ UNCHANGED trackerFrame
    /\ response' = None

(* the token callback resumes and updateSyncStatus reads sync_status and   *)
(* writes the reset status                                                 *)
SignOutTokenDone ==
    /\ syncService.signOut = "token"
    /\ syncService' = [syncService EXCEPT !.sync_status = SyncStatus(None, FALSE, 0),
                                          !.signOut = "statusSet"]
    /\ UNCHANGED trackerFrame
    /\ response' = None

SignOutStatusSetDone ==
    /\ syncService.signOut = "statusSet"
    /\ syncService' = [syncService EXCEPT !.signOut = "done"]
    /\ UNCHANGED trackerFrame
    /\ response' = None

InitForwarder ==
    /\ today = 0
    /\ tz \in TimeZones
    /\ storage = [settings |-> Absent, daily |-> Absent, historical |-> Absent]
    /\ probe = None
    /\ InitTracker

NextForwarder ==
    \/ \E session \in ForwardedSessions : AddPendingSession(session)
    \/ \E session \in ForwardedSessions : AddGetDone(session)
    \/ \E session \in ForwardedSessions : AddSetDone(session)
    \/ \E session \in ForwardedSessions : AddStatusSetDone(session)
    \/ PeriodicSync
    \/ \E run \in Runs : GetUserDone(run)
    \/ \E run \in Runs : PendingGetDone(run)
    \/ \E run \in Runs : InsertDone(run)
    \/ \E run \in Runs : DailyStatsDone(run)
    \/ \E run \in Runs : StatusSetDone(run)
    \/ \E run \in Runs : CountGetDone(run)
    \/ \E run \in Runs : FailStatusSetDone(run)
    \/ \E run \in Runs : RetrySync(run)
    \/ BackendDown
    \/ BackendUp

SpecForwarder == InitForwarder /\ [][NextForwarder]_vars

(* the same with SIGN_OUT requests, on a device that is off line: no       *)
(* syncData is started by addPendingSession                                *)
InitSignOut ==
    /\ today = 0
    /\ tz \in TimeZones
    /\ storage = [settings |-> Absent, daily |-> Absent, historical |-> Absent]
    /\ probe = None
    /\ InitFields
    /\ syncService = NewSyncService(TRUE, FALSE)

NextSignOut ==
    \/ NextForwarder
    \/ SignOut
    \/ SignOutAuthDone
    \/ SignOutTokenDone
    \/ SignOutStatusSetDone

SpecSignOut == InitSignOut /\ [][NextSignOut]_vars

(* every call that waits for a storage operation, a request or the retry   *)
(* timer is resumed in the end                                             *)
AddResumes(session) ==
    \/ AddGetDone(session)
    \/ AddSetDone(session)
    \/ AddStatusSetDone(session)

RunResumes(run) ==
    \/ GetUserDone(run)
    \/ PendingGetDone(run)
    \/ InsertDone(run)
    \/ DailyStatsDone(run)
    \/ StatusSetDone(run)
    \/ CountGetDone(run)
    \/ FailStatusSetDone(run)
    \/ RetrySync(run)

FairSpecForwarder ==
    /\ SpecForwarder
    /\ \A session \in ForwardedSessions : WF_vars(AddResumes(session))
    /\ \A run \in Runs : WF_vars(RunResumes(run))

----------------------------------------------------------------------------
(* Properties *)

(* the session with this id is on the session log of the Daily Stats ds *)
Recorded(ds, id) ==
    IF ds = None THEN FALSE ELSE \E i \in 1..Len(ds.sessions) : ds.sessions[i].id = id

(* C1: at most one session is current (currentSession is one slot), and a   *)
(* step that makes a new session current while another one is current has  *)
(* ended the old one: the old session is on the session log of Daily Stats, *)
(* pushed once, and the new session is a session not seen before.          *)
C1_OldSessionEndedFirst ==
    [][(/\ currentSession # None
        /\ currentSession' # None
        /\ currentSession'.id # currentSession.id)
       => /\ Recorded(dailyStats', currentSession.id)
          /\ Get(appendCount', currentSession.id) = 1
          /\ currentSession'.id = nextId
          /\ nextId' = nextId + 1]_vars

(* session 2 is current and session 1, which it replaced, is on the log *)
C1_Witness ==
    /\ currentSession # None
    /\ currentSession.id = 2
    /\ Recorded(dailyStats, 1)
    /\ Get(appendCount, 1) = 1

(* C2: every session that is no longer current has been pushed exactly     *)
(* once on a session log, whatever toggleTracking, clearAllData and        *)
(* loadDailyStats do in between.                                           *)
C2_EndedSessionsRecordedOnce ==
    \A id \in 1..(nextId - 1) :
        (currentSession = None \/ currentSession.id # id) => Get(appendCount, id) = 1

(* the sum of the values of a map, and of the totalTime of a session log *)
RECURSIVE SumMap(_)
SumMap(m) ==
    IF DOMAIN m = {} THEN 0
    ELSE LET k == CHOOSE x \in DOMAIN m : TRUE
         IN m[k] + SumMap([x \in (DOMAIN m) \ {k} |-> m[x]])

RECURSIVE SumSessions(_)
SumSessions(s) ==
    IF s = <<>> THEN 0 ELSE Head(s).totalTime + SumSessions(Tail(s))

(* C3: the three totals of Daily Stats agree: totalTime, the sum of the     *)
(* per-domain totals, and the sum of the totalTime of the logged sessions. *)
C3_TotalsAgree ==
    dailyStats # None =>
        /\ dailyStats.totalTime = SumMap(dailyStats.domains)
        /\ dailyStats.totalTime = SumSessions(dailyStats.sessions)

(* two sessions are logged, one of them ended by this run with time on it *)
C3_Witness ==
    /\ dailyStats # None
    /\ Len(dailyStats.sessions) >= 2
    /\ \E i \in 1..Len(dailyStats.sessions) :
          dailyStats.sessions[i].id >= 1 /\ dailyStats.sessions[i].totalTime > 0

(* C4: a step that updates the current session (the same session before    *)
(* and after, with a field changed) sets lastActive to now, never lowers   *)
(* totalTime, and adds exactly now - lastActive when the was-active        *)
(* determination, made on the activity status the step leaves, is true and *)
(* nothing when it is false.                                               *)
C4_UpdateAddsElapsedWhenActive ==
    [][(/\ currentSession # None
        /\ currentSession' # None
        /\ currentSession'.id = currentSession.id
        /\ currentSession' # currentSession)
       => LET t == [Tracker EXCEPT !.contentActivityStatus = contentActivityStatus']
          IN /\ currentSession'.lastActive = now
             /\ currentSession'.totalTime >= currentSession.totalTime
             /\ currentSession'.totalTime =
                   currentSession.totalTime
                   + (IF wasActive(t) THEN now - currentSession.lastActive ELSE 0)]_vars

(* the current session has counted one interval and skipped another one *)
C4_Witness ==
    /\ currentSession # None
    /\ currentSession.totalTime > 0
    /\ currentSession.lastActive - currentSession.startTime > currentSession.totalTime

(* C5: a step of a GET_DAILY_STATS request, made after initialize has      *)
(* returned, with no CLEAR_DATA request in progress and while the          *)
(* in-memory Daily Stats is the record of today, removes no session from   *)
(* its log and no time from its total.                                     *)
C5_LoadKeepsTodaysSessions ==
    [][(/\ loadPc # "idle"
        /\ loadPc' # loadPc
        /\ initPc = "done"
        /\ clearPc = "idle"
        /\ dailyStats # None
        /\ dailyStats.date = today)
       => /\ dailyStats' # None
          /\ \A i \in 1..Len(dailyStats.sessions) :
                Recorded(dailyStats', dailyStats.sessions[i].id)
          /\ dailyStats'.totalTime >= dailyStats.totalTime]_vars

(* the persisted record a run of loadDailyStats has read is of another day *)
(* and has time on it                                                      *)
StaleRecord(local) ==
    /\ local.stored # Absent
    /\ local.stored.date # local.today
    /\ local.stored.totalTime > 0

(* the weekly entry of the week of ds has the time of ds *)
Archived(h, ds) ==
    IF h = None THEN FALSE
    ELSE LET weekStart == getWeekStart(ds.date)
         IN /\ weekStart \in DOMAIN h.weeklyStats
            /\ ds.date \in DOMAIN h.weeklyStats[weekStart].dailyBreakdown
            /\ h.weeklyStats[weekStart].dailyBreakdown[ds.date] = ds.totalTime
            /\ h.weeklyStats[weekStart].totalTime >= ds.totalTime

(* C6: when a run of loadDailyStats, in initialize or in a later request,   *)
(* goes on to replace a persisted record of another day with time on it by *)
(* the empty record of today, Historical Data holds that time: the weekly  *)
(* entry of the record's week has it and dailyBreakdown[date] equals it.   *)
C6_RolloverArchives ==
    [][/\ (/\ initPc \in {"loadDaily", "archiveSave"}
           /\ initPc' = "saveDaily"
           /\ StaleRecord(initLocal))
          => Archived(historicalData', initLocal.stored)
       /\ (/\ loadPc \in {"get", "archiveSave"}
           /\ loadPc' = "saveDaily"
           /\ StaleRecord(loadLocal))
          => Archived(historicalData', loadLocal.stored)]_vars

(* toggleTracking resumes with tracking off while a session is current: the *)
(* session is ended, pushed once, and its time is added to the total       *)
ToggleOffEnds ==
    (/\ togglePc = "save"
     /\ togglePc' = "idle"
     /\ currentSession # None)
    => /\ currentSession' = None
       /\ Get(appendCount', currentSession.id) = 1
       /\ Recorded(dailyStats', currentSession.id)
       /\ dailyStats'.totalTime =
             dailyStats.totalTime + updateCurrentSession(Tracker).currentSession.totalTime

(* the session the step leaves is a new one, on the active tab, with no time *)
FreshSessionOnActiveTab ==
    /\ currentSession' # None
    /\ currentSession'.id = nextId
    /\ currentSession'.totalTime = 0
    /\ currentSession'.url = tabUrl[activeTab]
    /\ currentTabId' = activeTab

(* toggleTracking resumes from its query of the active tab with tracking   *)
(* on, and the URL of the active tab is trackable                          *)
ToggleOnResumes ==
    /\ togglePc = "query"
    /\ togglePc' = "idle"
    /\ isTrackingEnabled
    /\ activeTab # NoTabId
    /\ isValidUrl(tabUrl[activeTab])

Accumulated ==
    dailyStats.totalTime + (IF currentSession # None THEN currentSession.totalTime ELSE 0)

(* the part of it a restart would find in storage *)
Persisted ==
    IF storage.daily # Absent /\ storage.daily.date = dailyStats.date
    THEN storage.daily.totalTime ELSE 0

(* C8: the accumulated active time that storage lacks is at most one save  *)
(* interval; stated for the moments at which initialize has returned, the  *)
(* save timer runs and its callback is not waiting, no request is          *)
(* rewriting the records, no tab has sent an activity signal, and storage  *)
(* holds the in-memory Daily Stats as the last save wrote it.              *)
C8_BoundedLoss ==
    (/\ initPc = "done"
     /\ saveTimer /\ ~saveDue
     /\ clearPc = "idle"
     /\ loadPc = "idle"
     /\ \A tabId \in TabIds : contentActivityStatus[tabId] = None
     /\ dailyStats # None
     /\ storage.daily = dailyStats)
    => Accumulated - Persisted <= SAVE_INTERVAL

(* the session that is current before the step is ended by it *)
SessionEnded ==
    currentSession # None
    => /\ (currentSession' = None \/ currentSession'.id # currentSession.id)
       /\ Recorded(dailyStats', currentSession.id)

(* C9: with a session current on tab T = currentTabId, the handling of a   *)
(* switch to another tab, of the closing of T, of a navigation of T, of    *)
(* the loss of the window focus and of a toggle to off ends the session.   *)
C9_EventsEndSession ==
    [][/\ (\E tabId \in TabIds :
              /\ tabId \in lookups /\ tabId \notin lookups'
              /\ tabUrl[tabId] # Closed
              /\ tabId # currentTabId) => SessionEnded
       /\ (\E tabId \in TabIds :
              /\ tabId = currentTabId
              /\ tabUrl[tabId] # Closed
              /\ tabUrl'[tabId] = Closed) => SessionEnded
       /\ (\E tabId \in TabIds :
              /\ tabId = currentTabId
              /\ tabUrl[tabId] # Closed
              /\ tabUrl'[tabId] # Closed
              /\ tabUrl'[tabId] # tabUrl[tabId]) => SessionEnded
       /\ (windowFocused /\ ~windowFocused') => SessionEnded
       /\ (togglePc = "save" /\ togglePc' = "idle") => SessionEnded]_vars

(* a precondition of startTracking fails for this tab *)
PreconditionFails(tab) ==
    \/ ~isTrackingEnabled
    \/ tab.id = NoTabId
    \/ tab.url = NoUrl
    \/ ~isValidUrl(tab.url)
    \/ dailyStats = None

(* C10: a call of startTracking with a failing precondition leaves the     *)
(* current session, the tracked tab id, Daily Stats and the Activity       *)
(* Status map as they are.                                                 *)
C10_FailedStartChangesNothing ==
    [][(call' # call /\ PreconditionFails(call'))
       => UNCHANGED <<currentSession, currentTabId, dailyStats, contentActivityStatus>>]_vars

(* startTracking was called for an untrackable URL while a session was     *)
(* current and an activity status was on record                            *)
C10_Witness ==
    /\ call # None
    /\ call.id # NoTabId
    /\ call.url = UrlAbout
    /\ currentSession # None
    /\ \E tabId \in TabIds : contentActivityStatus[tabId] # None

(* C11: a step that ends a session (pushes it on the log) leaves it         *)
(* recorded in Daily Stats, with its time added to the total, and no       *)
(* longer current, while the addPendingSession call it made is still at    *)
(* its first await; and no step of an addPendingSession call, whatever its *)
(* outcome, changes the current session or Daily Stats.                    *)
C11_EndingIgnoresSync ==
    [][/\ \A id \in SessionIds :
            Get(appendCount', id) > Get(appendCount, id)
            => /\ currentSession # None /\ currentSession.id = id
               /\ (currentSession' = None \/ currentSession'.id # id)
               /\ Recorded(dailyStats', id)
               /\ dailyStats'.totalTime =
                     dailyStats.totalTime
                     + updateCurrentSession(Tracker).currentSession.totalTime
               /\ id \in DOMAIN syncCalls' /\ syncCalls'[id] = "get"
       /\ (\E id \in DOMAIN syncCalls : syncCalls'[id] # syncCalls[id])
          => UNCHANGED <<currentSession, currentTabId, dailyStats, appendCount>>]_vars

(* a session is on the log and not current; its addPendingSession call     *)
(* failed, and the call of another session found the backend unreachable   *)
C11_Witness ==
    \E id, other \in DOMAIN syncCalls :
        /\ syncCalls[id] = "failed"
        /\ syncCalls[other] = "unreachable"
        /\ Recorded(dailyStats, id)
        /\ Recorded(dailyStats, other)
        /\ (currentSession = None \/ currentSession.id \notin {id, other})

(* C12: the result of getWeekStart for a calendar date is a Monday, is not  *)
(* after the date and is at most 6 days before it.                         *)
C12_WeekStartIsMondayOfWeek ==
    (probe # None /\ probe.weekStart # {})
    => \A weekStart \in probe.weekStart :
          /\ getDay(weekStart) = 1
          /\ weekStart <= probe.date
          /\ probe.date - weekStart <= 6

(* the Monday of the Monday-to-Sunday week of a date *)
MondayOf(date) == date - ((getDay(date) + 6) % 7)

(* the step of initialize that loads Historical Data ran the cleanup pass *)
CleanupRan ==
    /\ initPc = "loadHist"
    /\ initPc' = "query"
    /\ initLocal.stored # Absent
    /\ historicalData'.lastCleanup # initLocal.stored.lastCleanup

(* C13: after the cleanup no weekly entry with a weekStart before the week  *)
(* start of today - 12 weeks remains, every entry at or after it is        *)
(* retained unchanged, no entry is added, and the result is persisted.     *)
C13_CleanupPrunesOldWeeks ==
    [][CleanupRan
       => LET old == initLocal.stored.weeklyStats
              new == historicalData'.weeklyStats
              cutoff == MondayOf(today - KEEP_WEEKS * 7)
          IN /\ \A w \in DOMAIN old :
                   IF w < cutoff THEN w \notin DOMAIN new
                   ELSE w \in DOMAIN new /\ new[w] = old[w]
             /\ DOMAIN new \subseteq DOMAIN old
             /\ storage'.historical = historicalData']_vars

(* the cleanup ran at boot, removed an entry and kept the entry of the     *)
(* cutoff week                                                             *)
C13_Witness ==
    /\ initPc = "query"
    /\ historicalData # None
    /\ historicalData.lastCleanup = Timestamp(today, now)
    /\ historicalData.allTimeTotals.firstTrackingDate # today
    /\ MondayOf(today - KEEP_WEEKS * 7) \in DOMAIN historicalData.weeklyStats
    /\ historicalData.allTimeTotals.sessionCount
          > Cardinality(DOMAIN historicalData.weeklyStats)

(* loadDailyStats, in initialize or in a later request, resumes from its   *)
(* read with the record of another day that has no time on it, and so      *)
(* calls archiveDailyData on it                                            *)
ArchivesZeroDay(resumes, local) ==
    /\ resumes
    /\ local.stored # Absent
    /\ local.stored.date # local.today
    /\ local.stored.totalTime = 0

(* C14: archiving a Daily Stats whose totalTime is 0 leaves Historical     *)
(* Data and the persisted historical record unchanged, whatever its        *)
(* session log holds.                                                      *)
C14_ZeroDayArchiveIsNoOp ==
    [][\/ ArchivesZeroDay(loadPc = "get" /\ loadPc' # "get", loadLocal)
       \/ ArchivesZeroDay(initPc = "loadDaily" /\ initPc' # "loadDaily", initLocal)
       => /\ historicalData' = historicalData
          /\ storage'.historical = storage.historical]_vars

(* getDailyStats has just archived a day of zero-duration sessions while   *)
(* Historical Data was loaded                                              *)
C14_Witness ==
    /\ loadPc = "saveDaily"
    /\ loadLocal.stored = ZeroDailyStats
    /\ Len(loadLocal.stored.sessions) > 0
    /\ loadLocal.today # 0
    /\ historicalData # None
    /\ historicalData = storage.historical

(* sendResponse was called in this step for a message with this action *)
Answers(action) == response' # None /\ response'.message.action = action

(* C15: a message with an unknown action, and a CONTENT_ACTIVITY_UPDATE    *)
(* with an unrecognized signal type, are each answered null or false.      *)
C15_UnknownAnsweredNullOrFalse ==
    [][/\ \A action \in UnknownActions :
            Answers(action) => response'.value \in {None, Bool(FALSE)}
       /\ (/\ Answers("CONTENT_ACTIVITY_UPDATE")
           /\ \E s \in UnknownSignals : response'.message.type = s.type)
          => response'.value \in {None, Bool(FALSE)}]_vars

(* C16: once a step of initialize has failed, initialize has returned for  *)
(* good (the failure is caught, nothing restarts or stops the process),    *)
(* and every later request is answered from the state the tracker has:     *)
(* the status and session requests in the step that delivers them, the     *)
(* stats and toggle requests when their awaited calls settle, with null    *)
(* when such a call rejects.                                               *)
C16_FailedBootStillAnswers ==
    /\ [][initPc = "failed"
          => /\ initPc' = "failed"
             /\ Answers("GET_TRACKING_STATUS") => response'.value = Bool(isTrackingEnabled)
             /\ Answers("GET_CURRENT_SESSION") => response'.value = currentSession
             /\ Answers("GET_DAILY_STATS") => response'.value \in {None, dailyStats'}
             /\ Answers("TOGGLE_TRACKING") => response'.value = Bool(isTrackingEnabled')
             /\ (loadPc # "idle" /\ loadPc' = "idle") => Answers("GET_DAILY_STATS")
             /\ (togglePc # "idle" /\ togglePc' = "idle") => Answers("TOGGLE_TRACKING")]_vars
    /\ (initPc = "failed" /\ loadPc # "idle") ~> (loadPc = "idle")
    /\ (initPc = "failed" /\ togglePc # "idle") ~> (togglePc = "idle")

(* initialize failed before Historical Data was loaded, and a later        *)
(* GET_DAILY_STATS has just been answered with the Daily Stats it loaded   *)
C16_Witness ==
    /\ initPc = "failed"
    /\ historicalData = None
    /\ response # None
    /\ response.message.action = "GET_DAILY_STATS"
    /\ response.value # None
    /\ response.value = dailyStats

(* the step updates the current session and leaves it current *)
UpdatesSession ==
    /\ currentSession # None
    /\ currentSession' # None
    /\ currentSession'.id = currentSession.id
    /\ currentSession' # currentSession

(* the step ends the current session: it is appended to the session log *)
EndsSession ==
    /\ currentSession # None
    /\ Get(appendCount', currentSession.id) > Get(appendCount, currentSession.id)

(* every interval of the current session so far has been counted *)
AllCounted(session) == session.totalTime = session.lastActive - session.startTime

(* C17: a session all of whose updates are judged active has counted all  *)
(* the time since its start after each of them, and when it ends it is     *)
(* logged with totalTime = end - start, and domains[its domain] and the    *)
(* Daily Stats totalTime grow by exactly that amount.                      *)
C17_ActiveSessionCountsWallClock ==
    [][/\ (/\ UpdatesSession
           /\ AllCounted(currentSession)
           /\ wasActive([Tracker EXCEPT !.contentActivityStatus = contentActivityStatus']))
          => AllCounted(currentSession')
       /\ (EndsSession /\ AllCounted(currentSession) /\ wasActive(Tracker))
          => LET elapsed == now - currentSession.startTime
                 domain == currentSession.domain
             IN /\ \E i \in 1..Len(dailyStats'.sessions) :
                      /\ dailyStats'.sessions[i].id = currentSession.id
                      /\ dailyStats'.sessions[i].totalTime = elapsed
                /\ Get(dailyStats'.domains, domain) = Get(dailyStats.domains, domain) + elapsed
                /\ dailyStats'.totalTime = dailyStats.totalTime + elapsed]_vars

(* a session of this run that was updated more than once is logged with   *)
(* all the time between its start and its end                              *)
C17_Witness ==
    /\ dailyStats # None
    /\ \E i \in 1..Len(dailyStats.sessions) :
          LET session == dailyStats.sessions[i]
          IN /\ session.id >= 1
             /\ AllCounted(session)
             /\ session.totalTime > SAVE_INTERVAL
             /\ Get(dailyStats.domains, session.domain) >= session.totalTime
             /\ dailyStats.totalTime >= session.totalTime

(* C18: an update counts the time since lastActive exactly when: the       *)
(* Activity Status map has an entry for the tracked tab and the entry is   *)
(* active and visible; or it has no entry and less than 30000 ms passed.   *)
C18_WasActivePrecedence ==
    [][UpdatesSession
       => LET timeDiff == now - currentSession.lastActive
              hasEntry == /\ currentTabId # NoTabId
                          /\ contentActivityStatus'[currentTabId] # None
              active == IF hasEntry
                        THEN /\ contentActivityStatus'[currentTabId].isActive
                             /\ contentActivityStatus'[currentTabId].isVisible
                        ELSE timeDiff < 30000
          IN currentSession'.totalTime - currentSession.totalTime
                = (IF active THEN timeDiff ELSE 0)]_vars

(* the entry of the tracked tab, active and visible, has made an update    *)
(* count an interval of the idle threshold                                 *)
C18_Witness ==
    /\ currentSession # None
    /\ currentTabId # NoTabId
    /\ contentActivityStatus[currentTabId] # None
    /\ contentActivityStatus[currentTabId].isActive
    /\ contentActivityStatus[currentTabId].isVisible
    /\ currentSession.totalTime >= IDLE_THRESHOLD

(* C19: an update that comes at least 30000 ms after the one before it     *)
(* adds nothing to totalTime, whatever the Activity Status map holds.      *)
C19_LongGapAddsNothing ==
    [][(UpdatesSession /\ now - currentSession.lastActive >= IDLE_THRESHOLD)
       => currentSession'.totalTime = currentSession.totalTime]_vars

(* C20: an update sets lastActive to now, whether it counts the time or    *)
(* not, and adds at most the time since the last update; in every state    *)
(* the current session has 0 <= totalTime <= lastActive - startTime.       *)
C20_LastActiveAdvancesTimeBounded ==
    /\ [][(/\ currentSession # None
           /\ currentSession' # None
           /\ currentSession'.id = currentSession.id)
          => /\ (saveDue /\ ~saveDue') => currentSession'.lastActive = now
             /\ currentSession' # currentSession
                => /\ currentSession'.lastActive = now
                   /\ currentSession'.totalTime - currentSession.totalTime
                         <= now - currentSession.lastActive]_vars
    /\ [](currentSession # None
          => /\ 0 <= currentSession.totalTime
             /\ currentSession.totalTime
                   <= currentSession.lastActive - currentSession.startTime)

(* an update has advanced lastActive over an idle gap and counted nothing *)
C20_Witness ==
    /\ currentSession # None
    /\ currentSession.totalTime = 0
    /\ currentSession.lastActive - currentSession.startTime >= IDLE_THRESHOLD

(* the entry a tab without one starts from *)
DefaultStatus == [isActive |-> TRUE, lastActivity |-> now, isVisible |-> TRUE]

(* what a signal of a known type makes of an entry *)
StatusAfter(old, signal) ==
    CASE signal.type = "activity" ->
            [old EXCEPT !.isActive = (signal.data.isActive # {FALSE}),
                        !.lastActivity = signal.timestamp]
      [] signal.type = "idle" -> [old EXCEPT !.isActive = FALSE]
      [] signal.type = "visibility" ->
            [old EXCEPT !.isVisible = (signal.data.isVisible = {TRUE}),
                        !.isActive = old.isActive /\ signal.data.isVisible = {TRUE}]

(* C21: a signal of type activity, idle or visibility changes the entry of *)
(* its tab as stated, starting from active and visible when the tab has    *)
(* no entry, and no other entry; a signal of any other type leaves the     *)
(* map and the current session unchanged.                                  *)
C21_SignalsUpdateStatus ==
    [][Answers("CONTENT_ACTIVITY_UPDATE")
       => LET tab == response'.message.sender
              signal == response'.message.data
              old == IF contentActivityStatus[tab] # None
                     THEN contentActivityStatus[tab] ELSE DefaultStatus
          IN IF signal.type \in {"activity", "idle", "visibility"}
             THEN /\ contentActivityStatus'[tab] = StatusAfter(old, signal)
                  /\ \A other \in TabIds \ {tab} :
                        contentActivityStatus'[other] = contentActivityStatus[other]
             ELSE /\ contentActivityStatus' = contentActivityStatus
                  /\ currentSession' = currentSession]_vars

(* an activity signal without payload, sent a save interval before it was  *)
(* handled, has just made its tab's entry active with its own timestamp    *)
C21_Witness ==
    /\ response # None
    /\ response.message.action = "CONTENT_ACTIVITY_UPDATE"
    /\ response.message.type = "activity"
    /\ response.message.data.data.isActive = {}
    /\ response.message.data.timestamp < now
    /\ contentActivityStatus[response.message.sender] # None
    /\ contentActivityStatus[response.message.sender].isActive
    /\ contentActivityStatus[response.message.sender].lastActivity
          = response.message.data.timestamp

(* C22: a signal of a known type from the tracked tab updates the current  *)
(* session at once, with the entry the signal leaves; a signal from any    *)
(* other tab leaves the current session and the other entries unchanged.   *)
C22_OnlyTrackedTabCounts ==
    [][(/\ Answers("CONTENT_ACTIVITY_UPDATE")
        /\ response'.message.type \in {"activity", "idle", "visibility"}
        /\ currentSession # None)
       => LET tab == response'.message.sender
          IN IF tab = currentTabId
             THEN /\ currentSession' # None
                  /\ currentSession'.lastActive = now
                  /\ currentSession'.totalTime - currentSession.totalTime
                        = IF /\ contentActivityStatus'[tab].isActive
                             /\ contentActivityStatus'[tab].isVisible
                          THEN now - currentSession.lastActive ELSE 0
             ELSE /\ currentSession' = currentSession
                  /\ \A other \in TabIds \ {tab} :
                        contentActivityStatus'[other] = contentActivityStatus[other]]_vars

(* a signal of a tab that is not tracked has just been handled, some time  *)
(* after the last update of the current session, which is as it was        *)
C22_Witness ==
    /\ response # None
    /\ response.message.action = "CONTENT_ACTIVITY_UPDATE"
    /\ response.message.type = "activity"
    /\ currentSession # None
    /\ currentTabId # NoTabId
    /\ response.message.sender # currentTabId
    /\ contentActivityStatus[response.message.sender] # None
    /\ currentSession.lastActive < now

(* C23: once the tab-removed event of a tab has been handled the Activity  *)
(* Status map has no entry for the tab, then and at any later time.        *)
C23_ClosedTabHasNoEntry ==
    \A tabId \in TabIds : tabUrl[tabId] = Closed => contentActivityStatus[tabId] = None

(* getDailyStats resumes from its read with the record of another day     *)
(* that has time on it, and archives it                                    *)
ArchivesDay ==
    /\ loadPc = "get"
    /\ loadPc' = "archiveSave"

(* C24: archiving a day with totalTime > 0 creates the entry of its week   *)
(* zeroed if absent, adds the day's totalTime, session count and domain    *)
(* times to the week and to the all-time totals, sets dailyBreakdown[date] *)
(* to the day's totalTime, and changes nothing else of Historical Data.    *)
C24_ArchiveAddsDayToWeekAndTotals ==
    [][ArchivesDay
       => LET ds == loadLocal.stored
              h == historicalData
              weekStart == MondayOf(ds.date)
              old == IF weekStart \in DOMAIN h.weeklyStats THEN h.weeklyStats[weekStart]
                     ELSE [weekStart |-> weekStart, totalTime |-> 0,
                           dailyBreakdown |-> EmptyMap, topDomains |-> EmptyMap,
                           sessionCount |-> 0]
              new == historicalData'.weeklyStats[weekStart]
              total == historicalData'.allTimeTotals
          IN /\ ds.totalTime > 0
             /\ DOMAIN historicalData'.weeklyStats = DOMAIN h.weeklyStats \cup {weekStart}
             /\ \A w \in DOMAIN h.weeklyStats \ {weekStart} :
                   historicalData'.weeklyStats[w] = h.weeklyStats[w]
             /\ new.weekStart = weekStart
             /\ new.totalTime = old.totalTime + ds.totalTime
             /\ new.sessionCount = old.sessionCount + Len(ds.sessions)
             /\ DOMAIN new.dailyBreakdown = DOMAIN old.dailyBreakdown \cup {ds.date}
             /\ \A d \in DOMAIN new.dailyBreakdown :
                   new.dailyBreakdown[d] = IF d = ds.date THEN ds.totalTime
                                           ELSE old.dailyBreakdown[d]
             /\ DOMAIN new.topDomains = DOMAIN old.topDomains \cup DOMAIN ds.domains
             /\ \A x \in DOMAIN new.topDomains :
                   new.topDomains[x] = Get(old.topDomains, x) + Get(ds.domains, x)
             /\ total.totalTime = h.allTimeTotals.totalTime + ds.totalTime
             /\ total.sessionCount = h.allTimeTotals.sessionCount + Len(ds.sessions)
             /\ total.firstTrackingDate = h.allTimeTotals.firstTrackingDate
             /\ DOMAIN total.topDomains
                   = DOMAIN h.allTimeTotals.topDomains \cup DOMAIN ds.domains
             /\ \A x \in DOMAIN total.topDomains :
                   total.topDomains[x]
                      = Get(h.allTimeTotals.topDomains, x) + Get(ds.domains, x)
             /\ historicalData'.version = h.version
             /\ historicalData'.lastCleanup = h.lastCleanup]_vars

(* a day of two domains has just been added to a week that had an entry,  *)
(* next to the entry of another week                                       *)
C24_Witness ==
    /\ loadPc = "archiveSave"
    /\ loadLocal.stored = BusyDailyStats
    /\ historicalData # None
    /\ Cardinality(DOMAIN historicalData.weeklyStats) = 2
    /\ historicalData.weeklyStats[MondayOf(0)].totalTime
          = SAVE_INTERVAL + BusyDailyStats.totalTime
    /\ Get(historicalData.allTimeTotals.topDomains, "b.com") = SAVE_INTERVAL + IDLE_THRESHOLD

RECURSIVE SumOver(_, _)
SumOver(f, keys) ==
    IF keys = {} THEN 0
    ELSE LET k == CHOOSE x \in keys : TRUE IN f[k] + SumOver(f, keys \ {k})

(* C25: each day is folded into Historical Data at most once, so the       *)
(* totalTime of every weekly entry is the sum of its dailyBreakdown.       *)
C25_WeekTotalIsSumOfDays ==
    historicalData # None
    => \A w \in DOMAIN historicalData.weeklyStats :
          LET week == historicalData.weeklyStats[w]
          IN week.totalTime = SumOver(week.dailyBreakdown, DOMAIN week.dailyBreakdown)

(* the weekly entries of a that b still has have not decreased in b *)
WeeksGrow(a, b) ==
    \A w \in DOMAIN a.weeklyStats \cap DOMAIN b.weeklyStats :
       LET old == a.weeklyStats[w]
           new == b.weeklyStats[w]
       IN /\ new.totalTime >= old.totalTime
          /\ new.sessionCount >= old.sessionCount
          /\ \A x \in DOMAIN old.topDomains :
                x \in DOMAIN new.topDomains /\ new.topDomains[x] >= old.topDomains[x]

WeeksKept(a, b) == DOMAIN a.weeklyStats \subseteq DOMAIN b.weeklyStats

(* the step of initialize that loads Historical Data and runs the cleanup *)
CleanupStep == initPc = "loadHist" /\ initPc' = "query"

(* the entries of a that b lacks went through the retention cleanup: the   *)
(* step is that of the cleanup and they are older than its cutoff week     *)
WeeksPruned(a, b) ==
    \/ WeeksKept(a, b)
    \/ /\ CleanupStep
       /\ \A w \in DOMAIN a.weeklyStats \ DOMAIN b.weeklyStats :
              w < MondayOf(today - KEEP_WEEKS * 7)

(* the step starts a CLEAR_DATA request or is taken while one is running *)
Clearing == clearPc # "idle" \/ clearPc' # "idle"

LoadsOverMemory == CleanupStep /\ historicalData # None

(* initialize finds a persisted record of another data version and         *)
(* replaces it by an empty one                                             *)
ResetsVersion ==
    /\ CleanupStep
    /\ initLocal.stored # Absent
    /\ initLocal.stored.version # DATA_VERSION

AtOrAfter(b, a) == b.date > a.date \/ (b.date = a.date /\ b.time >= a.time)

(* initialize adopts the persisted Historical Data and decides on the      *)
(* cleanup pass                                                            *)
AdoptsStored ==
    /\ CleanupStep
    /\ initLocal.stored # Absent
    /\ initLocal.stored.version = DATA_VERSION

(* C27: the cleanup pass runs only when at least 7 whole days have passed  *)
(* since the stored last-cleanup timestamp; when it runs the timestamp     *)
(* becomes the current time and the record is persisted, whether or not a  *)
(* weekly entry was deleted; when it does not run, the record, with its    *)
(* timestamp and weekly entries, and the storage are unchanged.            *)
C27_CleanupEverySevenDays ==
    [][AdoptsStored
       => LET last == initLocal.stored.lastCleanup
              due == Timestamp(last.date + CLEANUP_INTERVAL_DAYS, last.time)
          IN IF AtOrAfter(Timestamp(today, now), due)
             THEN /\ historicalData'.lastCleanup = Timestamp(today, now)
                  /\ storage'.historical = historicalData'
             ELSE /\ historicalData' = initLocal.stored
                  /\ storage' = storage]_vars

(* the pass ran later in the day than midnight and deleted nothing: the    *)
(* two stored weeks are both kept                                          *)
C27_Witness ==
    /\ initPc = "query"
    /\ today = 96
    /\ now > 0
    /\ historicalData # None
    /\ historicalData.lastCleanup = Timestamp(today, now)
    /\ storage.historical = historicalData
    /\ DOMAIN historicalData.weeklyStats = {11, 18}
    /\ historicalData.allTimeTotals.sessionCount = 2

(* C28: on load a persisted Historical Data of the expected version is   *)
(* adopted unchanged (the cleanup pass that follows may stamp it and prune *)
(* weeks, nothing else); an absent one or one of another version is        *)
(* replaced by an empty record, which is persisted, and initialize goes on *)
(* without an error.                                                       *)
C28_LoadAdoptsOrResets ==
    [][CleanupStep
       => LET storedData == initLocal.stored
              new == historicalData'
          IN IF storedData # Absent /\ storedData.version = DATA_VERSION
             THEN /\ new.version = storedData.version
                  /\ new.allTimeTotals = storedData.allTimeTotals
                  /\ DOMAIN new.weeklyStats \subseteq DOMAIN storedData.weeklyStats
                  /\ \A w \in DOMAIN new.weeklyStats :
                         new.weeklyStats[w] = storedData.weeklyStats[w]
                  /\ \/ new = storedData /\ storage' = storage
                     \/ /\ new.lastCleanup = Timestamp(today, now)
                        /\ new.lastCleanup # storedData.lastCleanup
                        /\ storage'.historical = new
             ELSE /\ new.version = DATA_VERSION
                  /\ new.weeklyStats = EmptyMap
                  /\ new.allTimeTotals.totalTime = 0
                  /\ new.allTimeTotals.sessionCount = 0
                  /\ new.allTimeTotals.topDomains = EmptyMap
                  /\ new.lastCleanup = Timestamp(today, now)
                  /\ storage'.historical = new
                  /\ initPc' = "query"]_vars

(* the record found at boot was replaced by an empty one, made and         *)
(* persisted on day 1 after the clock had advanced                         *)
C28_Witness ==
    /\ initPc = "query"
    /\ today = 1
    /\ now > 0
    /\ historicalData # None
    /\ historicalData.weeklyStats = EmptyMap
    /\ historicalData.allTimeTotals.totalTime = 0
    /\ historicalData.allTimeTotals.firstTrackingDate = today
    /\ historicalData.lastCleanup = Timestamp(today, now)
    /\ storage.historical = historicalData

(* a periodic save was rejected in this step *)
SaveRejected == failedSaves' # failedSaves

(* the timer callback ran in this step and its save was not rejected *)
SaveAccepted == saveTimer /\ saveDue /\ ~saveDue' /\ failedSaves' = failedSaves

(* C29: a rejected periodic save leaves Daily Stats in memory as it was    *)
(* and the current session as the callback's updateCurrentSession left it, *)
(* writes nothing, queues no retry and leaves the timer running; a later   *)
(* tick whose save is accepted writes the Daily Stats then in memory.      *)
C29_FailedSaveChangesNothing ==
    /\ [][SaveRejected
          => /\ dailyStats' = dailyStats
             /\ currentSession' = updateCurrentSession(Tracker).currentSession
             /\ storage' = storage
             /\ saveTimer'
             /\ ~saveDue']_vars
    /\ [][(SaveAccepted /\ failedSaves # <<>> /\ dailyStats' # None)
          => storage'.daily = dailyStats']_vars
    /\ [](failedSaves # <<>> => saveTimer)

(* a save was rejected; a session that ended at or after that tick is on   *)
(* the stored Daily Stats, written by a later tick                         *)
C29_Witness ==
    /\ failedSaves # <<>>
    /\ now > failedSaves[1]
    /\ saveTimer
    /\ ~saveDue
    /\ dailyStats # None
    /\ storage.daily = dailyStats
    /\ \E i \in 1..Len(dailyStats.sessions) :
          dailyStats.sessions[i].lastActive >= failedSaves[1]

(* C30: a suspend notification ends the current session, its time being  *)
(* added to Daily Stats and the session put last on the log, cancels the   *)
(* periodic save timer and writes Daily Stats, the ended session included, *)
(* to storage; after the step no session is current.                       *)
C30_SuspendEndsAndSaves ==
    [][Suspend
       => /\ currentSession' = None
          /\ ~saveTimer'
          /\ ~saveDue'
          /\ dailyStats' # None => storage'.daily = dailyStats'
          /\ currentSession # None
                => LET n == Len(dailyStats'.sessions)
                       ended == dailyStats'.sessions[n]
                   IN /\ n = Len(dailyStats.sessions) + 1
                      /\ ended.id = currentSession.id
                      /\ ended.totalTime >= currentSession.totalTime
                      /\ dailyStats'.totalTime = dailyStats.totalTime + ended.totalTime
                      /\ Get(dailyStats'.domains, ended.domain)
                            = Get(dailyStats.domains, ended.domain) + ended.totalTime
                      /\ storage'.daily.sessions[n] = ended]_vars

(* the worker was suspended after its boot while a session with time on it *)
(* was current in the focused window: the timer is off, no session is      *)
(* current and the stored log ends with that session                       *)
C30_Witness ==
    /\ initPc = "done"
    /\ ~saveTimer
    /\ currentSession = None
    /\ windowFocused
    /\ isTrackingEnabled
    /\ activeTab = 1
    /\ lookups = {}
    /\ dailyStats # None
    /\ storage.daily = dailyStats
    /\ Len(dailyStats.sessions) > 0
    /\ LET ended == dailyStats.sessions[Len(dailyStats.sessions)]
       IN /\ ended.id >= 1
          /\ ended.totalTime > 0
          /\ ended.lastActive = now

(* the elements of a list of sessions *)
Elements(sessions) == {sessions[i] : i \in 1..Len(sessions)}

(* syncData of this run throws in this step and enters its catch block *)
SyncFails(run) ==
    /\ syncService.runs[run].pc \in {"getUser", "insert", "dailyStats"}
    /\ syncService'.runs[run].pc = "countGet"

(* a syncData run is in its catch block or waits for its retry *)
SyncFailed == \E run \in Runs : syncService.runs[run].pc \in {"countGet", "failStatusSet", "retry"}

(* C31: when syncData fails, the pending-sessions store keeps every        *)
(* session in it, and the catch block ends with a retry scheduled after    *)
(* RETRY_DELAY_MS; and if the backend is reachable from some time on,      *)
(* every session that is in the pending store after a failure is inserted *)
(* in the end.                                                             *)
C31_FailedSyncRetriesUntilInserted ==
    /\ [][\A run \in Runs :
            /\ SyncFails(run) => syncService'.pending_sessions = syncService.pending_sessions
            /\ (syncService.runs[run].pc = "failStatusSet" /\ syncService'.runs[run].pc # "failStatusSet")
                  => /\ syncService'.runs[run].pc = "retry"
                     /\ syncService'.runs[run].delay = 30000]_vars
    /\ (<>[](syncService.reachable))
          => \A session \in ForwardedSessions :
                []((SyncFailed /\ session \in Elements(syncService.pending_sessions))
                     => <>(session \in Elements(syncService.browsing_sessions)))

(* C36: every session whose addPendingSession call has written the        *)
(* pending-sessions store is in that store or among the rows inserted      *)
(* into the remote table.                                                  *)
C36_NoForwardedSessionLost ==
    \A session \in ForwardedSessions :
        syncService.adds[session].pc \in {"set", "statusSet", "done"}
            => \/ session \in Elements(syncService.pending_sessions)
               \/ session \in Elements(syncService.browsing_sessions)

(* C37: no session is inserted into the remote table more than once.       *)
C37_InsertedAtMostOnce ==
    \A i, j \in 1..Len(syncService.browsing_sessions) :
        syncService.browsing_sessions[i] = syncService.browsing_sessions[j] => i = j

(* GET_SYNC_STATUS: what getSyncStatus returns *)
getSyncStatus ==
    IF syncService.sync_status = Absent THEN DefaultSyncStatus ELSE syncService.sync_status

(* no addPendingSession, syncData or signOut call is in flight; a retry    *)
(* may be scheduled                                                        *)
ForwarderIdle ==
    /\ \A session \in ForwardedSessions : syncService.adds[session].pc \in {"idle", "done"}
    /\ \A run \in Runs : syncService.runs[run].pc \in {"idle", "retry"}
    /\ syncService.signOut \in {"idle", "done"}

(* C39: when no Sync Forwarder operation is in flight, the pendingSessions *)
(* count of the stored sync status is the length of the pending-sessions   *)
(* store.                                                                  *)
C39_StatusCountsPendingStore ==
    ForwarderIdle => getSyncStatus.pendingSessions = Len(syncService.pending_sessions)

(* C32: a session is put on the session log of a Daily Stats record only  *)
(* on the calendar date of that record: the step that ends a session adds  *)
(* it to the record dated today.                                           *)
C32_SessionEndsOnRecordDate ==
    [][appendCount' # appendCount => dailyStats'.date = today']_vars

(* the persisted tracking setting, as loadSettings would read it *)
PersistedTrackingEnabled ==
    IF storage.settings = Absent THEN TRUE ELSE storage.settings.trackingEnabled

(* C33: when tracking is disabled and no toggleTracking call is in flight, *)
(* no session is current and the persisted setting is disabled too.        *)
C33_DisabledMeansNoSession ==
    (~isTrackingEnabled /\ togglePc = "idle")
        => /\ currentSession = None
           /\ PersistedTrackingEnabled = isTrackingEnabled

(* C34: removing a tab other than the tracked one leaves the current       *)
(* session and the tracked tab id as they are and deletes only that tab's  *)
(* Activity Status entry.                                                  *)
C34_RemovingOtherTabKeepsSession ==
    [][\A tabId \in TabIds :
          (TabRemoved(tabId) /\ tabId # currentTabId)
              => /\ currentSession' = currentSession
                 /\ currentTabId' = currentTabId
                 /\ contentActivityStatus' = [contentActivityStatus EXCEPT ![tabId] = None]]_vars

(* no tabs.onActivated or windows.onFocusChanged handler is in flight *)
ActivationsSettled == lookups = {} /\ ~focusQuery

(* the tab activated last is open on a page that is tracked, and the boot  *)
(* and the message handlers that start or end sessions are not running     *)
LastActivatedTrackable ==
    /\ activeTab # NoTabId
    /\ isValidUrl(tabUrl[activeTab])
    /\ initPc = "done"
    /\ togglePc = "idle"
    /\ clearPc = "idle"

(* C35: with tracking enabled and every tab-activated and window-focus     *)
(* handler completed, the current session, if there is one, belongs to the *)
(* tab that was activated last (a tab on a page that is tracked).          *)
C35_TracksLastActivatedTab ==
    (isTrackingEnabled /\ ActivationsSettled /\ LastActivatedTrackable /\ currentSession # None)
        => currentTabId = activeTab

(* the sessions of a Daily Stats record, stored or in memory, that were     *)
(* started before the last CLEAR_DATA                                      *)
TrackedBeforeClear(stats) ==
    IF stats = None \/ stats = Absent THEN {}
    ELSE {i \in 1..Len(stats.sessions) : stats.sessions[i].id < clearedBefore}

(* C38: once CLEAR_DATA has completed, neither the Daily Stats in memory   *)
(* nor the stored ones hold a session that was tracked before the clear.   *)
C38_ClearedTimeStaysCleared ==
    (clearedBefore > 0 /\ clearPc = "idle")
        => /\ TrackedBeforeClear(dailyStats) = {}
           /\ TrackedBeforeClear(storage.daily) = {}

====
